---------------------------- MODULE Spec2Model ----------------------------
(***************************************************************************)
(* Model of the swayami backend: the identity resolver of app/auth.py,     *)
(* the users collection behind app/repositories/user_repository.py, the    *)
(* POST /users handler of app/api/users.py and the AI generation facade of *)
(* app/services/openai_service.py.                                         *)
(*                                                                         *)
(* A Python str or bytes value is a sequence of code points (naturals).    *)
(* A base64 text is a sequence of one-character strings.  None is the      *)
(* empty sequence and a present value x is <<x>>.                          *)
(***************************************************************************)
EXTENDS Integers, Sequences, FiniteSets, TLC

VARIABLES
    users,      \* the users collection, in insertion order
    nextId,     \* number of identifiers the store has handed out
    now,        \* the UTC clock, in hours since the epoch
    tz,         \* offset of the server's local time from UTC, in hours
    pc,         \* position of each POST /users request
    pend,       \* the email each POST /users request carries
    auth,       \* the last call of UnifiedAuthService.get_user_from_token
    svc,        \* the OpenAIService singleton
    extCalls,   \* number of requests sent to the external service
    ai,         \* the last facade call and what it returned
    coll,       \* the users collection as documents keyed by _id
    repo,       \* the last call of UserRepository by identifier
    jwks,       \* _jwks_cache and _jwks_cache_expiry of SupabaseAuthService
    http,       \* the last request to an authenticated users endpoint
    api,        \* the last request to an /ai endpoint
    db          \* the goals, journals and tasks collections

vars == <<users, nextId, now, tz, pc, pend, auth, svc, extCalls, ai,
          coll, repo, jwks, http, api, db>>

authVars == <<users, nextId, now, tz, pc, pend, auth>>
aiVars == <<svc, extCalls, ai>>
repoVars == <<coll, repo>>
restVars == <<coll, repo, jwks, http, api, db>>

\* ------------------------------------------------------------------ bounds
MaxUsers == 2
MaxTime == 2
NumClients == 2

None == <<>>
Some(x) == <<x>>
IsNone(o) == o = <<>>
Val(o) == o[1]

\* ------------------------------------------------------------ text, bytes
\* Code points of the characters the model's texts are written with.
Ord(c) ==
    CASE c = ":" -> 58
      [] c = "@" -> 64
      [] c = "A" -> 65
      [] c = "a" -> 97
      [] c = "b" -> 98
      [] c = "u" -> 117
      [] c = "x" -> 120
      [] c = "1" -> 49
      [] c = "}" -> 125
      [] c = "." -> 46
      [] c = "2" -> 50
      [] c = "3" -> 51
      [] c = "c" -> 99
      [] c = "e" -> 101
      [] c = "g" -> 103
      [] c = "i" -> 105
      [] c = "l" -> 108
      [] c = "m" -> 109
      [] c = "n" -> 110
      [] c = "o" -> 111
      [] c = "p" -> 112
      [] c = "s" -> 115
      [] c = "t" -> 116
      [] c = "r" -> 114
      [] c = "_" -> 95
      [] c = "v" -> 118

\* str.encode(): the bytes of an ASCII text.
StrEncode(s) == [i \in 1..Len(s) |-> Ord(s[i])]

Colon == Ord(":")

B64Alphabet ==
    << "A","B","C","D","E","F","G","H","I","J","K","L","M","N","O","P",
       "Q","R","S","T","U","V","W","X","Y","Z","a","b","c","d","e","f",
       "g","h","i","j","k","l","m","n","o","p","q","r","s","t","u","v",
       "w","x","y","z","0","1","2","3","4","5","6","7","8","9","+","/" >>

B64Chars == {B64Alphabet[i] : i \in 1..Len(B64Alphabet)}

\* table_a2b_base64: the sextet a base64 character stands for.
B64Index(c) == (CHOOSE i \in 1..Len(B64Alphabet) : B64Alphabet[i] = c) - 1

B64Char(n) == B64Alphabet[n + 1]

\* base64.b64encode: three bytes to four characters, '=' padding at the end.
RECURSIVE b64encode(_)
b64encode(bs) ==
    IF Len(bs) = 0 THEN <<>>
    ELSE IF Len(bs) = 1 THEN
        << B64Char(bs[1] \div 4), B64Char((bs[1] % 4) * 16), "=", "=" >>
    ELSE IF Len(bs) = 2 THEN
        << B64Char(bs[1] \div 4),
           B64Char((bs[1] % 4) * 16 + bs[2] \div 16),
           B64Char((bs[2] % 16) * 4), "=" >>
    ELSE
        << B64Char(bs[1] \div 4),
           B64Char((bs[1] % 4) * 16 + bs[2] \div 16),
           B64Char((bs[2] % 16) * 4 + bs[3] \div 64),
           B64Char(bs[3] % 64) >>
        \o b64encode(SubSeq(bs, 4, Len(bs)))

\* binascii.a2b_base64 in its non-strict mode, as base64.b64decode(s) calls
\* it: characters outside the alphabet are skipped, a complete pad sequence
\* ends the parse, and data that stops inside a quad is an error (None).
RECURSIVE a2b(_, _, _, _, _, _)
a2b(s, i, quad, left, pads, out) ==
    IF i > Len(s) THEN (IF quad # 0 THEN None ELSE Some(out))
    ELSE IF s[i] = "=" THEN
        IF quad >= 2 /\ quad + pads + 1 >= 4 THEN Some(out)
        ELSE a2b(s, i + 1, quad, left, IF quad >= 2 THEN pads + 1 ELSE pads, out)
    ELSE IF s[i] \notin B64Chars THEN a2b(s, i + 1, quad, left, pads, out)
    ELSE
        LET v == B64Index(s[i]) IN
        CASE quad = 0 -> a2b(s, i + 1, 1, v, 0, out)
          [] quad = 1 -> a2b(s, i + 1, 2, v % 16, 0, Append(out, left * 4 + v \div 16))
          [] quad = 2 -> a2b(s, i + 1, 3, v % 4, 0, Append(out, left * 16 + v \div 4))
          [] quad = 3 -> a2b(s, i + 1, 0, 0, 0, Append(out, left * 64 + v))

b64decode(s) == a2b(s, 1, 0, 0, 0, <<>>)

\* bytes.decode('utf-8') on the byte values the model meets: an ASCII byte
\* is its own code point, a byte of 128 or more starts no valid sequence
\* here and raises (None).
Utf8Decode(bs) ==
    IF \A i \in 1..Len(bs) : bs[i] < 128 THEN Some(bs) ELSE None


\* --------------------------------------------------- the users collection
\* The emails of user records (the User model validates them as addresses).
EmailA == StrEncode(<<"a", "@", "x">>)
EmailB == StrEncode(<<"b", "@", "x">>)
EmailUpperA == StrEncode(<<"A", "@", "x">>)
Emails == {EmailA, EmailB, EmailUpperA}

\* str(result.inserted_id) of the i-th record the store has created.
IdOf(i) == <<"oid", i>>

UserRecords(n) == [id : {IdOf(i) : i \in 1..n}, email : Emails]

\* Contents the collection can have: at most MaxUsers records, each with
\* its own _id; two records may carry one email (see CreateUserCheck).
Stores ==
    UNION {{s \in [1..n -> UserRecords(n)] : \A i \in 1..n : s[i].id = IdOf(i)}
           : n \in 0..MaxUsers}

\* collection.find_one({"email": email}): the first document that matches.
find_one_by_email(store, email) ==
    IF \E i \in 1..Len(store) : store[i].email = email
    THEN Some(store[CHOOSE i \in 1..Len(store) :
                  /\ store[i].email = email
                  /\ \A j \in 1..(i - 1) : store[j].email # email])
    ELSE None

\* UserRepository.get_user_by_email: a driver error is logged and turned
\* into None.
get_user_by_email(store, email, dbOk) ==
    IF dbOk THEN find_one_by_email(store, email) ELSE None

\* ------------------------------------------------------------ credentials
SupabaseUrl == "https://pbeborjasiiwuudfnzhm.supabase.co"
Issuers == {SupabaseUrl, "https://other.example", "absent"}

\* The claims of a three-segment token whose payload is a JSON object:
\* iss is "absent" when the payload has none, exp counts only when has_exp,
\* email and sub are None when the payload has none.
ExpValues == 0..(MaxTime + 1)
Subs == {None, Some(IdOf(1))}
JwtClaims ==
    [iss : Issuers, has_exp : BOOLEAN, exp : ExpValues,
     email : {None, Some(<<>>)} \cup {Some(e) : e \in {EmailA, EmailUpperA}},
     sub : Subs]

NoClaims ==
    [iss |-> "absent", has_exp |-> FALSE, exp |-> 0, email |-> None, sub |-> None]

\* The text a whole JWT base64-decodes to when it decodes at all: the JSON
\* of its header and payload, which holds a ':' and, after it, characters
\* no address has.
JwtPlainText == StrEncode(<<"u", ":", "1", "}">>)

\* The identifier parts of the legacy tokens clients send.
Identifiers == {StrEncode(<<"u", "1">>), StrEncode(<<"u", ":", "1">>), <<>>}

LegacyText(id, email) == id \o <<Colon>> \o email

\* UnifiedAuthService.create_access_token
create_access_token(user_id, email) == b64encode(LegacyText(user_id, email))

\* Texts with no '.': legacy tokens, a token with no ':' inside, a token
\* with an empty email, a token cut short, and a token that is no base64.
OpaqueTexts ==
    {create_access_token(id, e) : id \in Identifiers, e \in Emails}
    \cup { b64encode(StrEncode(<<"u", "1">>)),
           b64encode(StrEncode(<<"u", "1", ":">>)),
           SubSeq(create_access_token(StrEncode(<<"u", "1">>), EmailA), 1, 5),
           <<"!", "?">> }

\* A credential is a text without dots (kind "opaque") or a well-formed
\* JWT (kind "jwt"), given by its claims and by whether the whole text
\* happens to be decodable base64 of UTF-8 (b64ok).
Credentials ==
    {[kind |-> "opaque", text |-> t, claims |-> NoClaims, b64ok |-> TRUE] :
        t \in OpaqueTexts}
    \cup
    {[kind |-> "jwt", text |-> <<>>, claims |-> c, b64ok |-> b] :
        c \in {k \in JwtClaims : k.has_exp \/ k.exp = 0}, b \in BOOLEAN}

\* ------------------------------------------------------ SupabaseAuthService
\* jwt.decode(token, options={"verify_signature": False}): the payload of a
\* well-formed token, with no claim validated; DecodeError (None) for a text
\* that has no three segments.
jwt_decode(token) ==
    IF token.kind = "jwt" THEN Some(token.claims) ELSE None

\* datetime.fromtimestamp(exp): the naive local time of the instant exp.
fromtimestamp(exp, offset) == exp + offset

\* The expiry test of verify_jwt_token:
\*   exp and datetime.fromtimestamp(exp) < datetime.utcnow()
\* A missing exp and the number 0 are both falsy.
TokenExpired(payload, utcnow, offset) ==
    /\ payload.has_exp
    /\ payload.exp # 0
    /\ fromtimestamp(payload.exp, offset) < utcnow

\* A slip in verify_jwt_token: the issuer is not compared.
verify_jwt_token_no_iss(token, utcnow, offset) ==
    LET decoded == jwt_decode(token) IN
    IF IsNone(decoded) THEN None
    ELSE IF TokenExpired(Val(decoded), utcnow, offset) THEN None
    ELSE decoded

\* SupabaseAuthService.verify_jwt_token
verify_jwt_token(token, utcnow, offset) ==
    LET decoded == jwt_decode(token) IN
    IF IsNone(decoded) THEN None
    ELSE IF Val(decoded).iss # SupabaseUrl THEN None
    ELSE IF TokenExpired(Val(decoded), utcnow, offset) THEN None
    ELSE decoded

\* Python truthiness of an optional text: None and "" are falsy.
Truthy(o) == ~IsNone(o) /\ Val(o) # <<>>

\* A slip in SupabaseAuthService.get_user_from_token: a payload without an
\* email is looked up by its sub claim.
SupabaseGetUserBySub(token, store, utcnow, offset, dbOk) ==
    LET payload == verify_jwt_token(token, utcnow, offset) IN
    IF IsNone(payload) THEN [result |-> None, calls |-> <<"verify_jwt">>]
    ELSE IF ~Truthy(Val(payload).email)
    THEN [result |-> IF dbOk /\ \E i \in 1..Len(store) :
                                    Some(store[i].id) = Val(payload).sub
                     THEN Val(payload).sub ELSE None,
          calls |-> <<"verify_jwt", "lookup">>]
    ELSE LET user == get_user_by_email(store, Val(Val(payload).email), dbOk) IN
         [result |-> IF IsNone(user) THEN None ELSE Some(Val(user).id),
          calls |-> <<"verify_jwt", "lookup">>]

\* SupabaseAuthService.get_user_from_token: the identity and the calls made.
SupabaseGetUser(token, store, utcnow, offset, dbOk) ==
    LET payload == verify_jwt_token(token, utcnow, offset) IN
    IF IsNone(payload) THEN [result |-> None, calls |-> <<"verify_jwt">>]
    ELSE IF ~Truthy(Val(payload).email)
    THEN [result |-> None, calls |-> <<"verify_jwt">>]
    ELSE LET user == get_user_by_email(store, Val(Val(payload).email), dbOk) IN
         [result |-> IF IsNone(user) THEN None ELSE Some(Val(user).id),
          calls |-> <<"verify_jwt", "lookup">>]

\* ------------------------------------------------------- LegacyAuthService
\* A slip in the split: the text before the first ':' (the identifier).
BeforeFirstColon(text) ==
    LET k == CHOOSE i \in 1..Len(text) :
                 text[i] = Colon /\ \A j \in 1..(i - 1) : text[j] # Colon
    IN SubSeq(text, 1, k - 1)

\* decoded.split(':', 1)[1]: the text after the first ':'.
AfterFirstColon(text) ==
    LET k == CHOOSE i \in 1..Len(text) :
                 text[i] = Colon /\ \A j \in 1..(i - 1) : text[j] # Colon
    IN SubSeq(text, k + 1, Len(text))

HasColon(text) == \E i \in 1..Len(text) : text[i] = Colon

\* base64.b64decode(token).decode('utf-8') of a credential.
DecodedText(token) ==
    IF token.kind = "jwt"
    THEN (IF token.b64ok THEN Some(JwtPlainText) ELSE None)
    ELSE LET raw == b64decode(token.text) IN
         IF IsNone(raw) THEN None ELSE Utf8Decode(Val(raw))

\* LegacyAuthService.decode_mock_token
\* A slip in decode_mock_token: the decoded text is not split, and the
\* whole of it is taken for the email.
decode_mock_token_unsplit(token) ==
    LET decoded == DecodedText(token) IN
    IF IsNone(decoded) THEN None
    ELSE IF HasColon(Val(decoded)) THEN Some(Val(decoded))
    ELSE None

decode_mock_token(token) ==
    LET decoded == DecodedText(token) IN
    IF IsNone(decoded) THEN None
    ELSE IF HasColon(Val(decoded)) THEN Some(AfterFirstColon(Val(decoded)))
    ELSE None

\* LegacyAuthService.get_user_id_from_email
get_user_id_from_email(store, email, dbOk) ==
    LET user == get_user_by_email(store, email, dbOk) IN
    IF IsNone(user) THEN None ELSE Some(Val(user).id)

\* ------------------------------------------------------ UnifiedAuthService
\* A slip in UnifiedAuthService.get_user_from_token: the legacy decode runs
\* whatever the JWT path gave.
get_user_from_token_both(token, store, utcnow, offset, dbOk1, dbOk2) ==
    LET j == SupabaseGetUser(token, store, utcnow, offset, dbOk1)
        email == decode_mock_token(token)
        uid == IF Truthy(email)
               THEN get_user_id_from_email(store, Val(email), dbOk2) ELSE None
        calls == j.calls \o <<"decode_mock">>
                 \o (IF Truthy(email) THEN <<"lookup">> ELSE <<>>)
    IN
    IF ~IsNone(j.result)
    THEN [result |-> j.result, path |-> "jwt", calls |-> calls]
    ELSE [result |-> uid, path |-> IF IsNone(uid) THEN "none" ELSE "legacy",
          calls |-> calls]

\* UnifiedAuthService.get_user_from_token: the identity, the path that gave
\* it and the calls made, in order.  dbOk1 and dbOk2 tell whether the store
\* answers the lookup of the JWT path and of the legacy path.
get_user_from_token(token, store, utcnow, offset, dbOk1, dbOk2) ==
    LET j == SupabaseGetUser(token, store, utcnow, offset, dbOk1) IN
    IF ~IsNone(j.result)
    THEN [result |-> j.result, path |-> "jwt", calls |-> j.calls]
    ELSE LET email == decode_mock_token(token) IN
         IF ~Truthy(email)
         THEN [result |-> None, path |-> "none",
               calls |-> j.calls \o <<"decode_mock">>]
         ELSE LET uid == get_user_id_from_email(store, Val(email), dbOk2) IN
              [result |-> uid,
               path |-> IF IsNone(uid) THEN "none" ELSE "legacy",
               calls |-> j.calls \o <<"decode_mock", "lookup">>]

NoCredential ==
    [kind |-> "opaque", text |-> <<>>, claims |-> NoClaims, b64ok |-> TRUE]

NoCall ==
    [called |-> FALSE, cred |-> NoCredential, at |-> 0, dbOk1 |-> TRUE,
     dbOk2 |-> TRUE, result |-> None, path |-> "none", calls |-> <<>>]

\* ------------------------------------------- the components at rest
\* UserUpdate with no field set.
NoUpdate == [name |-> None, has_completed_onboarding |-> None]

NoRepoCall ==
    [called |-> FALSE, op |-> "none", user_id |-> "", update |-> NoUpdate,
     fail |-> "none", at |-> 0, before |-> {}, result |-> None,
     deleted |-> FALSE, dbError |-> FALSE]

\* SupabaseAuthService.__init__: no keys cached.
NoKeys == [cache |-> None, expiry |-> None, fetches |-> 0, last |-> "none"]

NoRequest ==
    [called |-> FALSE, handler |-> "none", scheme |-> "none",
     cred |-> NoCredential, basic |-> <<>>, user_id |-> "", caller |-> "",
     update |-> NoUpdate, fail |-> "none", status |-> 0, identity |-> None,
     dbError |-> FALSE]

\* No goal, no journal and no task stored.
NoData == [goals |-> {}, journals |-> {}, tasks |-> <<>>]

NoApiCall ==
    [called |-> FALSE, route |-> "none", resource |-> "", user_id |-> "",
     fail |-> "none", status |-> 0, facade |-> FALSE, external |-> FALSE,
     dispatched |-> FALSE, attempts |-> 0, ran |-> FALSE,
     response |-> [json |-> TRUE], before |-> NoData]

RestIdle ==
    /\ coll = {}
    /\ repo = NoRepoCall
    /\ jwks = NoKeys
    /\ http = NoRequest
    /\ api = NoApiCall
    /\ db = NoData

\* ------------------------------------------------- the signing-key cache
MaxFetches == 2

\* timedelta(hours=1), the clock counting hours.
CacheHours == 1

\* What requests.get(jwks_url) comes to: status 200 with a key set or with
\* an empty object, another status, or an exception.
JwksResponses == {"keys", "{}", "500", "error"}

\* self._jwks_cache and self._jwks_cache_expiry and
\* self._jwks_cache_expiry > datetime.utcnow()
CacheFresh(k, utcnow) ==
    /\ ~IsNone(k.cache) /\ Val(k.cache) # "{}"
    /\ ~IsNone(k.expiry)
    /\ Val(k.expiry) > utcnow

\* SupabaseAuthService.get_jwks: the cache afterwards, with the number of
\* fetches made and how the call went (served from the cache, fetched with
\* status 200, or failed), and the keys returned.
get_jwks(k, utcnow, response) ==
    IF CacheFresh(k, utcnow)
    THEN [jwks |-> [k EXCEPT !.last = "cached"], result |-> k.cache]
    ELSE LET fetched == [k EXCEPT !.fetches = @ + 1] IN
         IF response \in {"keys", "{}"}
         THEN [jwks |-> [fetched EXCEPT !.cache = Some(response),
                                        !.expiry = Some(utcnow + CacheHours),
                                        !.last = "200"],
               result |-> Some(response)]
         ELSE [jwks |-> [fetched EXCEPT !.last = "failed"], result |-> None]

\* A call of supabase_auth.get_jwks().
GetJwks(response) ==
    /\ jwks.fetches < MaxFetches
    /\ jwks' = get_jwks(jwks, now, response).jwks
    /\ UNCHANGED <<authVars, aiVars, coll, repo, http, api, db>>

\* A slip in the resolver: it refreshes the signing keys before it decodes
\* the token.
ResolveFetchingKeys(token, dbOk1, dbOk2) ==
    LET r == get_user_from_token(token, users, now, tz, dbOk1, dbOk2)
        k == get_jwks(jwks, now, "keys")
    IN
    /\ ~auth.called
    /\ auth' = [called |-> TRUE, cred |-> token, at |-> now, dbOk1 |-> dbOk1,
                dbOk2 |-> dbOk2, result |-> r.result, path |-> r.path,
                calls |-> r.calls]
    /\ jwks' = k.jwks
    /\ UNCHANGED <<users, nextId, now, tz, pc, pend>>
    /\ UNCHANGED aiVars
    /\ UNCHANGED <<coll, repo, http, api, db>>

\* ----------------------------------------------------------------- actions
\* One request calls auth_service.get_user_from_token(token); auth keeps the
\* call and its outcome until the request ends.
Resolve(token, dbOk1, dbOk2) ==
    LET r == get_user_from_token(token, users, now, tz, dbOk1, dbOk2) IN
    /\ ~auth.called
    /\ auth' = [called |-> TRUE, cred |-> token, at |-> now, dbOk1 |-> dbOk1,
                dbOk2 |-> dbOk2, result |-> r.result, path |-> r.path,
                calls |-> r.calls]
    /\ UNCHANGED <<users, nextId, now, tz, pc, pend>>
    /\ UNCHANGED aiVars
    /\ UNCHANGED restVars

\* The request that called the resolver ends.
Done ==
    /\ auth.called
    /\ auth' = NoCall
    /\ UNCHANGED <<users, nextId, now, tz, pc, pend>>
    /\ UNCHANGED aiVars
    /\ UNCHANGED restVars

\* The clock advances.
Tick ==
    /\ now < MaxTime
    /\ now' = now + 1
    /\ UNCHANGED <<users, nextId, tz, pc, pend, auth>>
    /\ UNCHANGED aiVars
    /\ UNCHANGED restVars

Clients == 1..NumClients

AiIdle == [svc |-> [is_configured |-> FALSE, client |-> FALSE],
           extCalls |-> 0, ai |-> [last |-> None, fb |-> None]]

\* The resolver against any contents of the users collection.
Init ==
    /\ users \in Stores
    /\ nextId = Len(users)
    /\ now = 1
    /\ tz \in {-1, 0, 1}
    /\ pc = [c \in Clients |-> "idle"]
    /\ pend = [c \in Clients |-> [email |-> EmailA, status |-> 0]]
    /\ auth = NoCall
    /\ svc = AiIdle.svc
    /\ extCalls = AiIdle.extCalls
    /\ ai = AiIdle.ai
    /\ RestIdle

Next ==
    \/ \E token \in Credentials, dbOk1 \in BOOLEAN, dbOk2 \in BOOLEAN :
           Resolve(token, dbOk1, dbOk2)
    \/ Done
    \/ Tick

Spec == Init /\ [][Next]_vars

\* The resolver beside the signing-key cache.
InitKeys ==
    /\ users \in {st \in Stores : Len(st) <= 1}
    /\ nextId = Len(users)
    /\ now = 1
    /\ tz = 0
    /\ pc = [c \in Clients |-> "idle"]
    /\ pend = [c \in Clients |-> [email |-> EmailA, status |-> 0]]
    /\ auth = NoCall
    /\ svc = AiIdle.svc
    /\ extCalls = AiIdle.extCalls
    /\ ai = AiIdle.ai
    /\ RestIdle

NextKeys ==
    \/ \E token \in Credentials, dbOk1 \in BOOLEAN, dbOk2 \in BOOLEAN :
           Resolve(token, dbOk1, dbOk2)
    \/ Done
    \/ Tick
    \/ \E response \in JwksResponses : GetJwks(response)

SpecKeys == InitKeys /\ [][NextKeys]_vars

\* ------------------------------------------------- POST /users (create_user)
\* UserRepository.create_user: insert_one gives the record a fresh _id.
create_user(store, email) ==
    Append(store, [id |-> IdOf(Len(store) + 1), email |-> email])

InFlight == {c \in Clients : pc[c] = "checked"}

\* The first half of the handler: get_user_by_email, then 409 when a record
\* exists.  The handler is suspended at the await before the insert.
CreateUserCheck(c, email, dbOk) ==
    /\ pc[c] = "idle"
    /\ Len(users) + Cardinality(InFlight) < MaxUsers
    /\ LET existing_user == get_user_by_email(users, email, dbOk) IN
       IF ~IsNone(existing_user)
       THEN /\ pend' = [pend EXCEPT ![c] = [email |-> email, status |-> 409]]
            /\ pc' = pc
       ELSE /\ pend' = [pend EXCEPT ![c] = [email |-> email, status |-> 0]]
            /\ pc' = [pc EXCEPT ![c] = "checked"]
    /\ UNCHANGED <<users, nextId, now, tz, auth>>
    /\ UNCHANGED aiVars
    /\ UNCHANGED restVars

\* The second half: user_repository.create_user, then the 200 response; an
\* error of the insert is answered with 500 and stores nothing.
CreateUserInsert(c, dbOk) ==
    /\ pc[c] = "checked"
    /\ IF dbOk
       THEN /\ users' = create_user(users, pend[c].email)
            /\ nextId' = nextId + 1
            /\ pend' = [pend EXCEPT ![c].status = 200]
       ELSE /\ pend' = [pend EXCEPT ![c].status = 500]
            /\ UNCHANGED <<users, nextId>>
    /\ pc' = [pc EXCEPT ![c] = "idle"]
    /\ UNCHANGED <<now, tz, auth>>
    /\ UNCHANGED aiVars
    /\ UNCHANGED restVars

InitUsers ==
    /\ users = <<>>
    /\ nextId = 0
    /\ now = 1
    /\ tz = 0
    /\ pc = [c \in Clients |-> "idle"]
    /\ pend = [c \in Clients |-> [email |-> EmailA, status |-> 0]]
    /\ auth = NoCall
    /\ svc = AiIdle.svc
    /\ extCalls = AiIdle.extCalls
    /\ ai = AiIdle.ai
    /\ RestIdle

NextUsers ==
    \/ \E c \in Clients, email \in Emails, dbOk \in BOOLEAN :
           CreateUserCheck(c, email, dbOk)
    \/ \E c \in Clients, dbOk \in BOOLEAN : CreateUserInsert(c, dbOk)

\* Concurrent POST /users requests against an empty collection.
SpecUsers == InitUsers /\ [][NextUsers]_vars

\* ------------------------------------------------------------ OpenAIService
\* A Python value of no fixed type (a field of the service's JSON, a field
\* of a dict response) is [ok, v]: v is the value and ok tells whether it has
\* the type the response contract names.  A dict is a record that carries
\* the marker field json besides its keys.  An f-string is the sequence of
\* its pieces.
J(v) == [ok |-> TRUE, v |-> v]
Has(d, k) == k \in DOMAIN d
Get(d, k, default) == IF Has(d, k) THEN d[k] ELSE default
Or(s, default) == IF s = "" THEN default ELSE s

Priorities == {"high", "medium", "low"}

\* OpenAIService.__init__: api_key is "" when OPENAI_API_KEY is unset;
\* constructs tells whether OpenAI(api_key=...) returns a client.
OpenAIServiceInit(api_key, constructs) ==
    LET is_configured == api_key # "" IN
    IF is_configured
    THEN (IF constructs
          THEN [is_configured |-> TRUE, client |-> TRUE]
          ELSE [is_configured |-> FALSE, client |-> FALSE])
    ELSE [is_configured |-> FALSE, client |-> FALSE]

\* What a facade operation, or the try block inside it, comes to: an
\* exception (raised) or a returned response; external tells whether a
\* request was sent to the service.
Raise(ext) ==
    [raised |-> TRUE, external |-> ext, source |-> "none", type |-> "none",
     body |-> [json |-> TRUE]]
Return(ext, src, type, body) ==
    [raised |-> FALSE, external |-> ext, source |-> src, type |-> type,
     body |-> body]

\* self.client.chat.completions.create(...) followed by
\* json.loads(response.choices[0].message.content): the parsed result, or
\* the exception of a missing client, of the request, or of the parse.
LoadResult(svcv, outcome) ==
    IF ~svcv.client THEN [raised |-> TRUE, external |-> FALSE]
    ELSE IF outcome.kind \in {"network_error", "timeout", "no_content", "not_json"}
    THEN [raised |-> TRUE, external |-> TRUE]
    ELSE [raised |-> FALSE, external |-> TRUE]

IsObject(outcome) == outcome.kind = "json"

\* ---- generate_tasks_for_goal
\* A slip in _generate_fallback_tasks: the titles are fixed texts that do
\* not name the goal.
_generate_fallback_tasks_untitled(goal) ==
    [tasks |->
        << [title |-> <<"Plan your approach">>,
            description |-> "Break down this goal into smaller, manageable steps",
            priority |-> goal.priority, estimated_duration |-> Some(45),
            tags |-> <<"planning">>, goal_id |-> goal.id],
           [title |-> <<"Research strategies">>,
            description |-> "Look up best practices and methods to achieve this goal",
            priority |-> "medium", estimated_duration |-> Some(60),
            tags |-> <<"research">>, goal_id |-> goal.id],
           [title |-> <<"Take first action">>,
            description |-> Or(goal.description, "Start with the most obvious first step"),
            priority |-> goal.priority, estimated_duration |-> Some(30),
            tags |-> <<"action">>, goal_id |-> goal.id] >>,
     reasoning |-> "Generated fallback tasks - OpenAI API not available"]

_generate_fallback_tasks(goal) ==
    [tasks |->
        << [title |-> <<"Plan your approach to ", goal.title>>,
            description |-> "Break down this goal into smaller, manageable steps",
            priority |-> goal.priority, estimated_duration |-> Some(45),
            tags |-> <<"planning">>, goal_id |-> goal.id],
           [title |-> <<"Research strategies for ", goal.title>>,
            description |-> "Look up best practices and methods to achieve this goal",
            priority |-> "medium", estimated_duration |-> Some(60),
            tags |-> <<"research">>, goal_id |-> goal.id],
           [title |-> <<"Take first action toward ", goal.title>>,
            description |-> Or(goal.description, "Start with the most obvious first step"),
            priority |-> goal.priority, estimated_duration |-> Some(30),
            tags |-> <<"action">>, goal_id |-> goal.id] >>,
     reasoning |-> "Generated fallback tasks - OpenAI API not available"]

\* TaskCreate(title=task_data["title"], ...) for one element of "tasks".
TaskCreateRaises(task_data) ==
    \/ ~Has(task_data, "title")
    \/ Get(task_data, "priority", "medium") \notin Priorities

TaskCreateFrom(task_data, goal) ==
    [title |-> task_data.title,
     description |-> Get(task_data, "description", ""),
     priority |-> Get(task_data, "priority", "medium"),
     estimated_duration |->
        IF Has(task_data, "estimated_duration")
        THEN Some(task_data.estimated_duration) ELSE None,
     tags |-> Get(task_data, "tags", <<>>),
     goal_id |-> goal.id]

tasks_for_goal_try(svcv, req, outcome) ==
    LET r == LoadResult(svcv, outcome)
        result == outcome.json
        tasks == Get(result, "tasks", J(<<>>))
        reasoning == Get(result, "reasoning", J(""))
    IN
    IF r.raised THEN Raise(r.external)
    ELSE IF ~IsObject(outcome) THEN Raise(TRUE)
    ELSE IF ~tasks.ok THEN Raise(TRUE)
    ELSE IF \E i \in 1..Len(tasks.v) : TaskCreateRaises(tasks.v[i]) THEN Raise(TRUE)
    ELSE IF ~reasoning.ok THEN Raise(TRUE)
    ELSE Return(TRUE, "service", "TaskGenerationResponse",
                [tasks |-> [i \in 1..Len(tasks.v) |-> TaskCreateFrom(tasks.v[i], req.goal)],
                 reasoning |-> reasoning.v])

generate_tasks_for_goal(svcv, req, outcome) ==
    IF ~svcv.is_configured
    THEN Return(FALSE, "fallback", "TaskGenerationResponse", _generate_fallback_tasks(req.goal))
    ELSE LET b == tasks_for_goal_try(svcv, req, outcome) IN
         IF b.raised
         THEN Return(b.external, "fallback", "TaskGenerationResponse",
                     _generate_fallback_tasks(req.goal))
         ELSE b

\* ---- generate_smart_tasks_from_goal_description
_generate_fallback_goal_tasks(goal_title, goal_description) ==
    [json |-> TRUE,
     tasks |-> J(
        << [json |-> TRUE,
            title |-> <<"Plan your approach to ", goal_title>>,
            description |-> "Break down this goal into smaller, manageable steps",
            priority |-> "high", estimatedDuration |-> 45],
           [json |-> TRUE,
            title |-> <<"Research strategies for ", goal_title>>,
            description |-> "Look up best practices and methods to achieve this goal",
            priority |-> "medium", estimatedDuration |-> 60],
           [json |-> TRUE,
            title |-> <<"Take first action toward ", goal_title>>,
            description |-> Or(goal_description, "Start with the most obvious first step"),
            priority |-> "high", estimatedDuration |-> 30] >>),
     goalAnalysis |-> J("This goal requires focused effort and consistent action. Break it down into smaller steps and track your progress regularly. (Note: This is a fallback response - OpenAI API not configured)")]

smart_tasks_try(svcv, req, outcome) ==
    LET r == LoadResult(svcv, outcome)
        result == outcome.json
    IN
    IF r.raised THEN Raise(r.external)
    ELSE IF ~IsObject(outcome) THEN Raise(TRUE)
    ELSE Return(TRUE, "service", "dict",
                [json |-> TRUE,
                 tasks |-> Get(result, "tasks", J(<<>>)),
                 goalAnalysis |-> Get(result, "goalAnalysis",
                     J("This goal requires focused effort and consistent action."))])

\* A slip in generate_smart_tasks_from_goal_description: the except clause
\* builds the fallback without the description.
generate_smart_tasks_except_no_description(svcv, req, outcome) ==
    IF ~svcv.is_configured
    THEN Return(FALSE, "fallback", "dict",
                _generate_fallback_goal_tasks(req.goal_title, req.goal_description))
    ELSE LET b == smart_tasks_try(svcv, req, outcome) IN
         IF b.raised
         THEN Return(b.external, "fallback", "dict",
                     _generate_fallback_goal_tasks(req.goal_title, ""))
         ELSE b

generate_smart_tasks_from_goal_description(svcv, req, outcome) ==
    IF ~svcv.is_configured
    THEN Return(FALSE, "fallback", "dict",
                _generate_fallback_goal_tasks(req.goal_title, req.goal_description))
    ELSE LET b == smart_tasks_try(svcv, req, outcome) IN
         IF b.raised
         THEN Return(b.external, "fallback", "dict",
                     _generate_fallback_goal_tasks(req.goal_title, req.goal_description))
         ELSE b

\* ---- generate_daily_breakdown
_generate_fallback_daily_plan(goal_title) ==
    [json |-> TRUE,
     weeklyPlan |-> J(
        << [day |-> "Monday",
            tasks |-> << [title |-> "Start your goal journey",
                          description |-> <<"Begin working on ", goal_title>>,
                          estimatedDuration |-> 60, priority |-> "high"] >>],
           [day |-> "Tuesday",
            tasks |-> << [title |-> "Continue progress",
                          description |-> <<"Build on yesterday's momentum">>,
                          estimatedDuration |-> 60, priority |-> "medium"] >>],
           [day |-> "Wednesday",
            tasks |-> << [title |-> "Mid-week check-in",
                          description |-> <<"Review progress and adjust if needed">>,
                          estimatedDuration |-> 30, priority |-> "medium"] >>] >>),
     totalDuration |-> J(150),
     tips |-> J(<< "Start small and build momentum",
                   "Track your progress daily",
                   "Celebrate small wins",
                   "Stay consistent even when motivation is low",
                   "(Note: This is a fallback response - OpenAI API not configured)" >>)]

\* A slip in generate_daily_breakdown: the parsed result is returned as it
\* is, without the .get defaults.
daily_breakdown_try_raw(svcv, req, outcome) ==
    LET r == LoadResult(svcv, outcome)
        result == outcome.json
    IN
    IF \E i \in 1..Len(req.tasks) : ~req.tasks[i].ok THEN Raise(FALSE)
    ELSE IF r.raised THEN Raise(r.external)
    ELSE IF ~IsObject(outcome) THEN Raise(TRUE)
    ELSE Return(TRUE, "service", "dict", result)

daily_breakdown_try(svcv, req, outcome) ==
    LET r == LoadResult(svcv, outcome)
        result == outcome.json
    IN
    \* task.get('title', ...) for task in tasks runs before the request
    IF \E i \in 1..Len(req.tasks) : ~req.tasks[i].ok THEN Raise(FALSE)
    ELSE IF r.raised THEN Raise(r.external)
    ELSE IF ~IsObject(outcome) THEN Raise(TRUE)
    ELSE Return(TRUE, "service", "dict",
                [json |-> TRUE,
                 weeklyPlan |-> Get(result, "weeklyPlan", J(<<>>)),
                 totalDuration |-> Get(result, "totalDuration", J(420)),
                 tips |-> Get(result, "tips", J(<<>>))])

generate_daily_breakdown(svcv, req, outcome) ==
    IF ~svcv.is_configured
    THEN Return(FALSE, "fallback", "dict", _generate_fallback_daily_plan(req.goal_title))
    ELSE LET b == daily_breakdown_try(svcv, req, outcome) IN
         IF b.raised
         THEN Return(b.external, "fallback", "dict",
                     _generate_fallback_daily_plan(req.goal_title))
         ELSE b

\* A slip in _generate_fallback_journal_summary: the score is taken from a
\* counter of the service.
_generate_fallback_journal_summary_counted ==
    [summary |-> "Journal entry recorded successfully. (AI analysis not available - OpenAI API not configured)",
     key_themes |-> <<"reflection", "personal growth">>,
     sentiment_score |-> extCalls,
     mood_analysis |-> "AI mood analysis is currently unavailable. Please check back later."]

\* ---- summarize_journal
_generate_fallback_journal_summary ==
    [summary |-> "Journal entry recorded successfully. (AI analysis not available - OpenAI API not configured)",
     key_themes |-> <<"reflection", "personal growth">>,
     sentiment_score |-> 0,
     mood_analysis |-> "AI mood analysis is currently unavailable. Please check back later."]

JournalFields == {"summary", "key_themes", "sentiment_score", "mood_analysis"}

summarize_journal_try(svcv, req, outcome) ==
    LET r == LoadResult(svcv, outcome)
        result == outcome.json
    IN
    IF r.raised THEN Raise(r.external)
    ELSE IF ~IsObject(outcome) THEN Raise(TRUE)
    \* result["summary"], ...: KeyError for a missing key
    ELSE IF \E k \in JournalFields : ~Has(result, k) THEN Raise(TRUE)
    \* JournalSummaryResponse(...): ValidationError for a value of another type
    ELSE IF \E k \in JournalFields : ~result[k].ok THEN Raise(TRUE)
    ELSE Return(TRUE, "service", "JournalSummaryResponse",
                [summary |-> result.summary.v,
                 key_themes |-> result.key_themes.v,
                 sentiment_score |-> result.sentiment_score.v,
                 mood_analysis |-> result.mood_analysis.v])

\* A slip in summarize_journal: the try block without its except clause.
summarize_journal_uncaught(svcv, req, outcome) ==
    IF ~svcv.is_configured
    THEN Return(FALSE, "fallback", "JournalSummaryResponse",
                _generate_fallback_journal_summary)
    ELSE summarize_journal_try(svcv, req, outcome)

summarize_journal(svcv, req, outcome) ==
    IF ~svcv.is_configured
    THEN Return(FALSE, "fallback", "JournalSummaryResponse",
                _generate_fallback_journal_summary)
    ELSE LET b == summarize_journal_try(svcv, req, outcome) IN
         IF b.raised
         THEN Return(b.external, "fallback", "JournalSummaryResponse",
                     _generate_fallback_journal_summary)
         ELSE b

\* ---- analyze_mood_patterns
_generate_fallback_mood_analysis(journal_count) ==
    [overall_sentiment |-> 0,
     mood_trend |-> "stable",
     insights |-> << <<"Analysis based on ", ToString(journal_count), " journal entries">>,
                     <<"AI mood analysis currently unavailable">>,
                     <<"Continue journaling for better insights">> >>,
     recommendations |-> << "Continue journaling regularly",
                            "Focus on mindfulness and self-reflection",
                            "Check back later for AI-powered insights" >>]

NoEntriesAnalysis ==
    [overall_sentiment |-> 0,
     mood_trend |-> "neutral",
     insights |-> << <<"No journal entries found for analysis">> >>,
     recommendations |-> <<"Start journaling regularly to track mood patterns">>]

MoodFields == {"overall_sentiment", "mood_trend", "insights", "recommendations"}

analyze_mood_try(svcv, req, outcome) ==
    LET r == LoadResult(svcv, outcome)
        result == outcome.json
    IN
    IF Len(req.journals) = 0
    THEN Return(FALSE, "empty", "MoodAnalysisResponse", NoEntriesAnalysis)
    ELSE IF r.raised THEN Raise(r.external)
    ELSE IF ~IsObject(outcome) THEN Raise(TRUE)
    ELSE IF \E k \in MoodFields : ~Has(result, k) THEN Raise(TRUE)
    ELSE IF \E k \in MoodFields : ~result[k].ok THEN Raise(TRUE)
    ELSE Return(TRUE, "service", "MoodAnalysisResponse",
                [overall_sentiment |-> result.overall_sentiment.v,
                 mood_trend |-> result.mood_trend.v,
                 insights |-> result.insights.v,
                 recommendations |-> result.recommendations.v])

\* A slip in analyze_mood_patterns: the empty-list answer is given before
\* is_configured is looked at.
analyze_mood_patterns_empty_first(svcv, req, outcome) ==
    IF Len(req.journals) = 0
    THEN Return(FALSE, "empty", "MoodAnalysisResponse", NoEntriesAnalysis)
    ELSE IF ~svcv.is_configured
    THEN Return(FALSE, "fallback", "MoodAnalysisResponse",
                _generate_fallback_mood_analysis(Len(req.journals)))
    ELSE LET b == analyze_mood_try(svcv, req, outcome) IN
         IF b.raised
         THEN Return(b.external, "fallback", "MoodAnalysisResponse",
                     _generate_fallback_mood_analysis(Len(req.journals)))
         ELSE b

analyze_mood_patterns(svcv, req, outcome) ==
    IF ~svcv.is_configured
    THEN Return(FALSE, "fallback", "MoodAnalysisResponse",
                _generate_fallback_mood_analysis(Len(req.journals)))
    ELSE LET b == analyze_mood_try(svcv, req, outcome) IN
         IF b.raised
         THEN Return(b.external, "fallback", "MoodAnalysisResponse",
                     _generate_fallback_mood_analysis(Len(req.journals)))
         ELSE b

\* ---- requests, service results and the facade calls
MaxJournals == 2
MaxCalls == 2

Ops == {"generate_tasks_for_goal", "generate_smart_tasks_from_goal_description",
        "generate_daily_breakdown", "summarize_journal", "analyze_mood_patterns"}

Goals ==
    { [id |-> "g1", title |-> "Learn Spanish", description |-> "", priority |-> "high"],
      [id |-> "g2", title |-> "Run", description |-> "Daily practice", priority |-> "low"] }

Requests(op) ==
    CASE op = "generate_tasks_for_goal" -> {[goal |-> g] : g \in Goals}
      [] op = "generate_smart_tasks_from_goal_description" ->
            {[goal_title |-> g.title, goal_description |-> g.description] : g \in Goals}
      [] op = "generate_daily_breakdown" ->
            { [tasks |-> <<J([json |-> TRUE, title |-> <<"Buy a book">>])>>,
               goal_title |-> "Learn Spanish"],
              [tasks |-> <<>>, goal_title |-> "Learn Spanish"],
              [tasks |-> <<[ok |-> FALSE, v |-> [json |-> TRUE]]>>, goal_title |-> "Run"] }
      [] op = "summarize_journal" -> {[journal |-> "j1"], [journal |-> "j2"]}
      [] op = "analyze_mood_patterns" ->
            {[journals |-> [i \in 1..n |-> "j1"]] : n \in 0..MaxJournals}

EmptyJson == [json |-> TRUE]
Bad(v) == [ok |-> FALSE, v |-> v]

ItemFull ==
    [json |-> TRUE, title |-> <<"Book a class">>, description |-> "Find a tutor",
     priority |-> "high", estimated_duration |-> 60, tags |-> <<"language">>]
ItemTitleOnly == [json |-> TRUE, title |-> <<"Buy a book">>]
ItemNoTitle == [json |-> TRUE, description |-> "Find a tutor"]
ItemBadPriority == [json |-> TRUE, title |-> <<"Buy a book">>, priority |-> "urgent"]

\* JSON objects the service can answer with: the full shape, shapes that
\* lack fields, and shapes with a field of another type.
JsonResults(op) ==
    CASE op = "generate_tasks_for_goal" ->
            { [json |-> TRUE, tasks |-> J(<<ItemFull, ItemTitleOnly>>), reasoning |-> J("basics first")],
              [json |-> TRUE, tasks |-> J(<<ItemFull>>)],
              EmptyJson,
              [json |-> TRUE, tasks |-> J(<<ItemFull, ItemNoTitle>>), reasoning |-> J("basics first")],
              [json |-> TRUE, tasks |-> J(<<ItemBadPriority>>)],
              [json |-> TRUE, tasks |-> Bad(<<>>), reasoning |-> J("basics first")],
              [json |-> TRUE, tasks |-> J(<<ItemFull>>), reasoning |-> Bad("")] }
      [] op = "generate_smart_tasks_from_goal_description" ->
            { [json |-> TRUE, tasks |-> J(<<ItemTitleOnly>>), goalAnalysis |-> J("achievable")],
              [json |-> TRUE, tasks |-> J(<<ItemTitleOnly>>)],
              EmptyJson,
              [json |-> TRUE, tasks |-> Bad(<<>>)] }
      [] op = "generate_daily_breakdown" ->
            { [json |-> TRUE, weeklyPlan |-> J(<<[day |-> "Monday", tasks |-> <<>>]>>),
               totalDuration |-> J(420), tips |-> J(<<"Rest">>)],
              [json |-> TRUE, weeklyPlan |-> J(<<[day |-> "Monday", tasks |-> <<>>]>>)],
              EmptyJson,
              [json |-> TRUE, weeklyPlan |-> Bad(<<>>), tips |-> J(<<"Rest">>)] }
      [] op = "summarize_journal" ->
            { [json |-> TRUE, summary |-> J("A calm day"), key_themes |-> J(<<"work">>),
               sentiment_score |-> J(50), mood_analysis |-> J("steady")],
              [json |-> TRUE, summary |-> J("A calm day"), key_themes |-> J(<<"work">>),
               sentiment_score |-> J(50)],
              [json |-> TRUE, summary |-> J("A calm day"), key_themes |-> Bad(<<>>),
               sentiment_score |-> J(50), mood_analysis |-> J("steady")],
              EmptyJson }
      [] op = "analyze_mood_patterns" ->
            { [json |-> TRUE, overall_sentiment |-> J(20), mood_trend |-> J("improving"),
               insights |-> J(<< <<"more sleep helps">> >>), recommendations |-> J(<<"walk">>)],
              [json |-> TRUE, overall_sentiment |-> J(20), mood_trend |-> J("improving"),
               recommendations |-> J(<<"walk">>)],
              [json |-> TRUE, overall_sentiment |-> Bad(0), mood_trend |-> J("improving"),
               insights |-> J(<< <<"more sleep helps">> >>), recommendations |-> J(<<"walk">>)],
              EmptyJson }

FailKinds == {"network_error", "timeout", "no_content", "not_json", "json_not_object"}

\* What the request to the external service comes to.
Outcomes(op) ==
    {[kind |-> k, json |-> EmptyJson] : k \in FailKinds}
    \cup {[kind |-> "json", json |-> j] : j \in JsonResults(op)}

NoOutcome == [kind |-> "no_request", json |-> EmptyJson]

Facade(op, svcv, req, outcome) ==
    CASE op = "generate_tasks_for_goal" -> generate_tasks_for_goal(svcv, req, outcome)
      [] op = "generate_smart_tasks_from_goal_description" ->
            generate_smart_tasks_from_goal_description(svcv, req, outcome)
      [] op = "generate_daily_breakdown" -> generate_daily_breakdown(svcv, req, outcome)
      [] op = "summarize_journal" -> summarize_journal(svcv, req, outcome)
      [] op = "analyze_mood_patterns" -> analyze_mood_patterns(svcv, req, outcome)

\* One call of a facade operation.  ai.last is the call and what came of
\* it; ai.fb is a fallback response of an earlier call.
Call(op, req, outcome) ==
    LET r == Facade(op, svc, req, outcome) IN
    /\ extCalls < MaxCalls
    /\ extCalls' = extCalls + (IF r.external THEN 1 ELSE 0)
    /\ \E keep \in BOOLEAN :
        ai' = [last |-> Some([op |-> op, req |-> req,
                              outcome |-> IF r.external THEN outcome ELSE NoOutcome,
                              raised |-> r.raised, external |-> r.external,
                              source |-> r.source, type |-> r.type, body |-> r.body]),
               fb |-> IF ~IsNone(ai.last) /\ Val(ai.last).source = "fallback"
                         /\ (IsNone(ai.fb) \/ ~keep)
                      THEN Some([op |-> Val(ai.last).op, req |-> Val(ai.last).req,
                                 body |-> Val(ai.last).body])
                      ELSE ai.fb]
    /\ UNCHANGED svc
    /\ UNCHANGED authVars
    /\ UNCHANGED restVars

InitAI ==
    /\ \E api_key \in {"", "sk-test"}, constructs \in BOOLEAN :
           svc = OpenAIServiceInit(api_key, constructs)
    /\ extCalls = 0
    /\ ai = [last |-> None, fb |-> None]
    /\ users = <<>>
    /\ nextId = 0
    /\ now = 1
    /\ tz = 0
    /\ pc = [c \in Clients |-> "idle"]
    /\ pend = [c \in Clients |-> [email |-> EmailA, status |-> 0]]
    /\ auth = NoCall
    /\ RestIdle

NextAI ==
    \/ \E req \in Requests("generate_tasks_for_goal"),
          outcome \in Outcomes("generate_tasks_for_goal") :
           Call("generate_tasks_for_goal", req, outcome)
    \/ \E req \in Requests("generate_smart_tasks_from_goal_description"),
          outcome \in Outcomes("generate_smart_tasks_from_goal_description") :
           Call("generate_smart_tasks_from_goal_description", req, outcome)
    \/ \E req \in Requests("generate_daily_breakdown"),
          outcome \in Outcomes("generate_daily_breakdown") :
           Call("generate_daily_breakdown", req, outcome)
    \/ \E req \in Requests("summarize_journal"),
          outcome \in Outcomes("summarize_journal") :
           Call("summarize_journal", req, outcome)
    \/ \E req \in Requests("analyze_mood_patterns"),
          outcome \in Outcomes("analyze_mood_patterns") :
           Call("analyze_mood_patterns", req, outcome)

\* The facade under any sequence of calls and service results.
SpecAI == InitAI /\ [][NextAI]_vars

\* --------------------------------------- UserRepository, lookups by _id
MaxDocs == 2

\* Identifiers: texts of 24 hexadecimal digits, which ObjectId() accepts,
\* and a text it refuses.
HexIds == {"65a1f0c2b3d4e5f601234567", "686297879a25b97b568c0908"}
PlainIds == {"user_123"}
UserIds == HexIds \cup PlainIds

\* A stored _id: an ObjectId or a plain string, of the text s.
OidOf(s) == [rep |-> "oid", s |-> s]
StrOf(s) == [rep |-> "str", s |-> s]

\* bson.ObjectId(user_id): InvalidId (None) unless the text is 24 hex digits.
ObjectId(user_id) == IF user_id \in HexIds THEN Some(OidOf(user_id)) ELSE None

\* str(user_data["_id"])
Str(oid) == oid.s

StoredIds == {OidOf(h) : h \in HexIds} \cup {StrOf(h) : h \in UserIds}

Documents ==
    [_id : StoredIds, email : {EmailA, EmailB}, name : {"Pavan"},
     has_completed_onboarding : {FALSE}, updated_at : {0}]

\* Contents of the collection: the _id is unique, and an ObjectId and a
\* string of the same digits are two different keys.
Collections ==
    {c \in SUBSET Documents :
        /\ Cardinality(c) <= MaxDocs
        /\ \A d, e \in c : d._id = e._id => d = e}

\* collection.find_one({"_id": key})
find_one_by_id(c, key) ==
    IF \E d \in c : d._id = key THEN Some(CHOOSE d \in c : d._id = key) ELSE None

\* user_data["_id"] = str(user_data["_id"]); User(**user_data)
ToUser(d) ==
    [id |-> Str(d._id), email |-> d.email, name |-> d.name,
     has_completed_onboarding |-> d.has_completed_onboarding,
     updated_at |-> d.updated_at]

RepoResult(c, result, dbError) == [coll |-> c, result |-> result, dbError |-> dbError]

\* A slip in get_user_by_id: no second query by the string.
get_user_by_id_oid_only(c, user_id, fail) ==
    LET oid == ObjectId(user_id)
        byOid == IF IsNone(oid) \/ fail = "find_oid" THEN None
                 ELSE find_one_by_id(c, Val(oid))
    IN RepoResult(c, IF IsNone(byOid) THEN None ELSE Some(ToUser(Val(byOid))),
                  ~IsNone(oid) /\ fail = "find_oid")

\* UserRepository.get_user_by_id: the query by ObjectId, whose errors are
\* logged, then the query by the string; fail names the driver call that
\* raises.
get_user_by_id(c, user_id, fail) ==
    LET oid == ObjectId(user_id)
        oidRaised == ~IsNone(oid) /\ fail = "find_oid"
        byOid == IF IsNone(oid) \/ oidRaised THEN None
                 ELSE find_one_by_id(c, Val(oid))
    IN
    IF ~IsNone(byOid) THEN RepoResult(c, Some(ToUser(Val(byOid))), FALSE)
    ELSE IF fail = "find_str" THEN RepoResult(c, None, TRUE)
    ELSE LET byStr == find_one_by_id(c, StrOf(user_id)) IN
         RepoResult(c, IF IsNone(byStr) THEN None ELSE Some(ToUser(Val(byStr))),
                    oidRaised)

UserUpdates ==
    [name : {None, Some("Ann")},
     has_completed_onboarding : {None, Some(TRUE)}]

\* A slip in update_user: update_dict holds every field of the update, the
\* ones that are None too, so an absent name empties the stored one.
SetFieldsUnfiltered(d, update, utcnow) ==
    [d EXCEPT !.name = IF IsNone(update.name) THEN "" ELSE Val(update.name),
              !.has_completed_onboarding =
                  IF IsNone(update.has_completed_onboarding) THEN FALSE
                  ELSE Val(update.has_completed_onboarding),
              !.updated_at = utcnow]

\* {"$set": update_dict} on one document, update_dict holding the fields
\* that are not None and updated_at.
SetFields(d, update, utcnow) ==
    [d EXCEPT !.name = IF IsNone(update.name) THEN @ ELSE Val(update.name),
              !.has_completed_onboarding =
                  IF IsNone(update.has_completed_onboarding) THEN @
                  ELSE Val(update.has_completed_onboarding),
              !.updated_at = utcnow]

\* collection.update_one({"_id": key}, {"$set": update_dict})
update_one(c, key, update, utcnow) ==
    {IF d._id = key THEN SetFields(d, update, utcnow) ELSE d : d \in c}

Matched(c, key) == \E d \in c : d._id = key

\* UserRepository.update_user: the update by the string first, then by
\* ObjectId; every error is logged and answered with None.
update_user(c, user_id, update, utcnow, fail) ==
    IF update = NoUpdate THEN get_user_by_id(c, user_id, fail)
    ELSE IF fail = "update_str" THEN RepoResult(c, None, TRUE)
    ELSE IF Matched(c, StrOf(user_id))
    THEN LET c2 == update_one(c, StrOf(user_id), update, utcnow) IN
         IF fail = "find_str" THEN RepoResult(c2, None, TRUE)
         ELSE RepoResult(c2, Some(ToUser(Val(find_one_by_id(c2, StrOf(user_id))))), FALSE)
    ELSE LET oid == ObjectId(user_id) IN
         IF IsNone(oid) THEN RepoResult(c, None, FALSE)
         ELSE IF fail = "update_oid" THEN RepoResult(c, None, TRUE)
         ELSE IF Matched(c, Val(oid))
         THEN LET c2 == update_one(c, Val(oid), update, utcnow) IN
              IF fail = "find_oid" THEN RepoResult(c2, None, TRUE)
              ELSE RepoResult(c2, Some(ToUser(Val(find_one_by_id(c2, Val(oid))))), FALSE)
         ELSE RepoResult(c, None, FALSE)

\* collection.delete_one({"_id": key})
delete_one(c, key) == {d \in c : d._id # key}

\* UserRepository.delete_user: delete_one by ObjectId(user_id) alone; an
\* identifier ObjectId refuses, or a driver error, is logged and answered
\* False. The answer is a record of the collection left, whether a record
\* was deleted, and whether the driver raised.
delete_user(c, user_id, fail) ==
    LET oid == ObjectId(user_id) IN
    IF IsNone(oid) THEN [coll |-> c, deleted |-> FALSE, dbError |-> FALSE]
    ELSE IF fail = "delete_oid" THEN [coll |-> c, deleted |-> FALSE, dbError |-> TRUE]
    ELSE [coll |-> delete_one(c, Val(oid)), deleted |-> Matched(c, Val(oid)),
          dbError |-> FALSE]

GetFails == {"none", "find_oid", "find_str"}
DeleteFails == {"none", "delete_oid"}
UpdateFails == GetFails \cup {"update_str", "update_oid"}

\* One call of user_repository.get_user_by_id.
GetUserById(user_id, fail) ==
    LET r == get_user_by_id(coll, user_id, fail) IN
    /\ ~repo.called
    /\ repo' = [called |-> TRUE, op |-> "get_user_by_id", user_id |-> user_id,
                update |-> NoUpdate, fail |-> fail, at |-> now, before |-> coll,
                result |-> r.result, deleted |-> FALSE, dbError |-> r.dbError]
    /\ coll' = r.coll
    /\ UNCHANGED <<authVars, aiVars, jwks, http, api, db>>

\* One call of user_repository.update_user.
UpdateUser(user_id, update, fail) ==
    LET r == update_user(coll, user_id, update, now, fail) IN
    /\ ~repo.called
    /\ repo' = [called |-> TRUE, op |-> "update_user", user_id |-> user_id,
                update |-> update, fail |-> fail, at |-> now, before |-> coll,
                result |-> r.result, deleted |-> FALSE, dbError |-> r.dbError]
    /\ coll' = r.coll
    /\ UNCHANGED <<authVars, aiVars, jwks, http, api, db>>

\* One call of user_repository.delete_user.
DeleteUser(user_id, fail) ==
    LET r == delete_user(coll, user_id, fail) IN
    /\ ~repo.called
    /\ repo' = [called |-> TRUE, op |-> "delete_user", user_id |-> user_id,
                update |-> NoUpdate, fail |-> fail, at |-> now, before |-> coll,
                result |-> None, deleted |-> r.deleted, dbError |-> r.dbError]
    /\ coll' = r.coll
    /\ UNCHANGED <<authVars, aiVars, jwks, http, api, db>>

\* The caller has its answer.
RepoDone ==
    /\ repo.called
    /\ repo' = NoRepoCall
    /\ UNCHANGED <<coll, authVars, aiVars, jwks, http, api, db>>

InitRepo ==
    /\ coll \in Collections
    /\ repo = NoRepoCall
    /\ jwks = NoKeys
    /\ http = NoRequest
    /\ api = NoApiCall
    /\ db = NoData
    /\ users = <<>>
    /\ nextId = 0
    /\ now = 1
    /\ tz = 0
    /\ pc = [c \in Clients |-> "idle"]
    /\ pend = [c \in Clients |-> [email |-> EmailA, status |-> 0]]
    /\ auth = NoCall
    /\ svc = AiIdle.svc
    /\ extCalls = AiIdle.extCalls
    /\ ai = AiIdle.ai

NextRepo ==
    \/ \E user_id \in UserIds, fail \in GetFails : GetUserById(user_id, fail)
    \/ \E user_id \in UserIds, update \in UserUpdates, fail \in UpdateFails :
           UpdateUser(user_id, update, fail)
    \/ \E user_id \in UserIds, fail \in DeleteFails : DeleteUser(user_id, fail)
    \/ RepoDone
    \/ Tick

\* The repository's lookups and updates by identifier, against any
\* contents of the collection.
SpecRepo == InitRepo /\ [][NextRepo]_vars

\* ------------------------------------------- authenticated request handlers
\* settings.mock_user_email and settings.mock_user_password
mock_user_email ==
    StrEncode(<<"c","o","n","t","a","c","t",".","p","a","v","a","n","s","b",
                "@","g","m","a","i","l",".","c","o","m">>)
mock_user_password == StrEncode(<<"t","e","s","t","1","2","3">>)

\* UnifiedAuthService.verify_credentials
verify_credentials(email, password) ==
    email = mock_user_email /\ password = mock_user_password

\* email, password = decoded.split(":", 1), for a text that holds a ':'.
SplitFirst(text) ==
    LET k == CHOOSE i \in 1..Len(text) :
                 text[i] = Colon /\ \A j \in 1..(i - 1) : text[j] # Colon
    IN [email |-> SubSeq(text, 1, k - 1),
        password |-> SubSeq(text, k + 1, Len(text))]

\* What a handler answers: the status, the identity it hands to the route
\* and whether a driver error was raised, and logged, on the way.
Answer(status, identity, dbError) ==
    [status |-> status, identity |-> identity, dbError |-> dbError]

\* Whether a lookup of the resolution r met a driver error.
LookupFailed(r, dbOk1, dbOk2) ==
    \/ (Len(r.calls) >= 2 /\ r.calls[2] = "lookup" /\ ~dbOk1)
    \/ /\ \E i \in 1..Len(r.calls) : r.calls[i] = "decode_mock"
       /\ r.calls[Len(r.calls)] = "lookup"
       /\ ~dbOk2

\* A slip in get_current_user_id: the resolver's answer is returned as it
\* is, None included.
get_current_user_id_unchecked(credentials, store, utcnow, offset, dbOk1, dbOk2) ==
    IF IsNone(credentials) THEN Answer(401, None, FALSE)
    ELSE LET r == get_user_from_token(Val(credentials), store, utcnow, offset,
                                      dbOk1, dbOk2)
         IN Answer(200, r.result, LookupFailed(r, dbOk1, dbOk2))

\* get_current_user_id: credentials is None when the request has no Bearer
\* header.
get_current_user_id(credentials, store, utcnow, offset, dbOk1, dbOk2) ==
    IF IsNone(credentials) THEN Answer(401, None, FALSE)
    ELSE LET r == get_user_from_token(Val(credentials), store, utcnow, offset,
                                      dbOk1, dbOk2)
         IN IF ~IsNone(r.result)
            THEN Answer(200, r.result, LookupFailed(r, dbOk1, dbOk2))
            ELSE Answer(401, None, LookupFailed(r, dbOk1, dbOk2))

\* get_user_id_flexible: the Authorization header is absent (scheme
\* "none"), "Bearer <cred>", "Basic <basic>" or something else.
get_user_id_flexible(header, store, utcnow, offset, dbOk1, dbOk2) ==
    IF header.scheme = "none" THEN Answer(401, None, FALSE)
    ELSE IF header.scheme = "Bearer"
    THEN LET r == get_user_from_token(header.cred, store, utcnow, offset,
                                      dbOk1, dbOk2)
         IN IF ~IsNone(r.result)
            THEN Answer(200, r.result, LookupFailed(r, dbOk1, dbOk2))
            ELSE Answer(401, None, LookupFailed(r, dbOk1, dbOk2))
    ELSE IF header.scheme = "Basic"
    THEN LET raw == b64decode(header.basic)
             decoded == IF IsNone(raw) THEN None ELSE Utf8Decode(Val(raw))
         IN IF IsNone(decoded) THEN Answer(401, None, FALSE)
            ELSE IF ~HasColon(Val(decoded)) THEN Answer(401, None, FALSE)
            ELSE LET email == SplitFirst(Val(decoded)).email
                     user_id == get_user_id_from_email(store, email, dbOk2)
                 IN IF ~IsNone(user_id) THEN Answer(200, user_id, ~dbOk2)
                    ELSE Answer(401, None, ~dbOk2)
    ELSE Answer(401, None, FALSE)

\* The user records the handlers are tried against.
HttpStores ==
    { <<>>,
      <<[id |-> IdOf(1), email |-> EmailA]>>,
      <<[id |-> IdOf(1), email |-> mock_user_email]>>,
      <<[id |-> IdOf(1), email |-> EmailB], [id |-> IdOf(2), email |-> mock_user_email]>> }

JwtOf(iss, email) ==
    [kind |-> "jwt", text |-> <<>>,
     claims |-> [iss |-> iss, has_exp |-> TRUE, exp |-> MaxTime + 1,
                 email |-> Some(email), sub |-> None],
     b64ok |-> FALSE]

BearerCredentials ==
    {c \in Credentials : c.kind = "opaque"}
    \cup {NoCredential, JwtOf(SupabaseUrl, EmailA), JwtOf("https://other.example", EmailA)}

BasicTexts ==
    {b64encode(LegacyText(e, pw)) :
        e \in {mock_user_email, EmailA, EmailB},
        pw \in {mock_user_password, StrEncode(<<"x">>)}}
    \cup { b64encode(EmailA),
           SubSeq(b64encode(LegacyText(EmailA, mock_user_password)), 1, 5),
           <<"!", "?">> }

AuthHeaders ==
    {[scheme |-> "none", cred |-> NoCredential, basic |-> <<>>],
     [scheme |-> "other", cred |-> NoCredential, basic |-> <<>>]}
    \cup {[scheme |-> "Bearer", cred |-> c, basic |-> <<>>] : c \in BearerCredentials}
    \cup {[scheme |-> "Basic", cred |-> NoCredential, basic |-> b] : b \in BasicTexts}

\* A route that depends on get_current_user_id receives a request.
GetCurrentUserId(credentials, dbOk1, dbOk2) ==
    LET a == get_current_user_id(credentials, users, now, tz, dbOk1, dbOk2) IN
    /\ ~http.called
    /\ http' = [called |-> TRUE, handler |-> "get_current_user_id",
                scheme |-> IF IsNone(credentials) THEN "none" ELSE "Bearer",
                cred |-> IF IsNone(credentials) THEN NoCredential ELSE Val(credentials),
                basic |-> <<>>, user_id |-> "", caller |-> "", update |-> NoUpdate,
                fail |-> "none", status |-> a.status, identity |-> a.identity,
                dbError |-> a.dbError]
    /\ UNCHANGED <<authVars, aiVars, coll, repo, jwks, api, db>>

\* A route that depends on get_user_id_flexible receives a request.
GetUserIdFlexible(header, dbOk1, dbOk2) ==
    LET a == get_user_id_flexible(header, users, now, tz, dbOk1, dbOk2) IN
    /\ ~http.called
    /\ http' = [called |-> TRUE, handler |-> "get_user_id_flexible",
                scheme |-> header.scheme, cred |-> header.cred,
                basic |-> header.basic, user_id |-> "", caller |-> "",
                update |-> NoUpdate,
                fail |-> "none", status |-> a.status, identity |-> a.identity,
                dbError |-> a.dbError]
    /\ UNCHANGED <<authVars, aiVars, coll, repo, jwks, api, db>>

\* GET /users/me (get_current_user), user_id being the resolved identity.
GetCurrentUser(user_id, fail) ==
    LET r == get_user_by_id(coll, user_id, fail) IN
    /\ ~http.called
    /\ http' = [called |-> TRUE, handler |-> "get_current_user",
                scheme |-> "Bearer", cred |-> NoCredential, basic |-> <<>>,
                user_id |-> user_id, caller |-> user_id, update |-> NoUpdate,
                fail |-> fail,
                status |-> IF IsNone(r.result) THEN 404 ELSE 200,
                identity |-> None, dbError |-> r.dbError]
    /\ UNCHANGED <<authVars, aiVars, coll, repo, jwks, api, db>>

\* PUT /users/{user_id} (update_user of api/users.py), current_user_id
\* being the identity get_current_user_id resolved: a user_id that differs
\* from it is logged, and the update is made.
PutUser(user_id, current_user_id, update, fail) ==
    LET r == update_user(coll, user_id, update, now, fail) IN
    /\ ~http.called
    /\ http' = [called |-> TRUE, handler |-> "update_user",
                scheme |-> "Bearer", cred |-> NoCredential, basic |-> <<>>,
                user_id |-> user_id, caller |-> current_user_id,
                update |-> update, fail |-> fail,
                status |-> IF IsNone(r.result) THEN 404 ELSE 200,
                identity |-> None, dbError |-> r.dbError]
    /\ coll' = r.coll
    /\ UNCHANGED <<authVars, aiVars, repo, jwks, api, db>>

\* PUT /users/{user_id}/onboarding (update_user_onboarding): completed is
\* onboarding_data.get('has_completed_onboarding', False).
PutUserOnboarding(user_id, current_user_id, completed, fail) ==
    LET update_data == [name |-> None, has_completed_onboarding |-> Some(completed)]
        r == update_user(coll, user_id, update_data, now, fail)
    IN
    /\ ~http.called
    /\ http' = [called |-> TRUE, handler |-> "update_user_onboarding",
                scheme |-> "Bearer", cred |-> NoCredential, basic |-> <<>>,
                user_id |-> user_id, caller |-> current_user_id,
                update |-> update_data, fail |-> fail,
                status |-> IF IsNone(r.result) THEN 404 ELSE 200,
                identity |-> None, dbError |-> r.dbError]
    /\ coll' = r.coll
    /\ UNCHANGED <<authVars, aiVars, repo, jwks, api, db>>

\* A slip in the DELETE route: the comparison with the caller is left out.
users_delete_user_unchecked(c, user_id, current_user_id, fail) ==
    LET r == delete_user(c, user_id, fail) IN
    [coll |-> r.coll, status |-> IF r.deleted THEN 200 ELSE 404,
     dbError |-> r.dbError]

\* delete_user of api/users.py: 403 unless user_id is the caller's
\* identity, 404 when the repository answers False.
users_delete_user(c, user_id, current_user_id, fail) ==
    IF user_id # current_user_id
    THEN [coll |-> c, status |-> 403, dbError |-> FALSE]
    ELSE LET r == delete_user(c, user_id, fail) IN
         [coll |-> r.coll, status |-> IF r.deleted THEN 200 ELSE 404,
          dbError |-> r.dbError]

\* DELETE /users/{user_id}
DeleteUserRoute(user_id, current_user_id, fail) ==
    LET a == users_delete_user(coll, user_id, current_user_id, fail) IN
    /\ ~http.called
    /\ http' = [called |-> TRUE, handler |-> "delete_user",
                scheme |-> "Bearer", cred |-> NoCredential, basic |-> <<>>,
                user_id |-> user_id, caller |-> current_user_id,
                update |-> NoUpdate, fail |-> fail, status |-> a.status,
                identity |-> None, dbError |-> a.dbError]
    /\ coll' = a.coll
    /\ UNCHANGED <<authVars, aiVars, repo, jwks, api, db>>

\* settings.mock_user_id: as an identifier, one that no stored record has
\* (the ids of records are IdOf(i)), and as the text of its characters.
mock_user_id == <<"user_123", 0>>
MockUserIdText == StrEncode(<<"u","s","e","r","_","1","2","3">>)

\* UnifiedAuthService.authenticate: 401 unless the credentials are the
\* development ones; else the response with mock_user["user_id"] and the
\* token create_access_token makes of it and the email.
authenticate(email, password) ==
    IF ~verify_credentials(email, password)
    THEN [status |-> 401, user_id |-> None, access_token |-> <<>>]
    ELSE [status |-> 200, user_id |-> Some(mock_user_id),
          access_token |-> create_access_token(MockUserIdText, email)]

\* One call of authenticate; the token of the response is kept as the
\* credential a client would send next.
Authenticate(email, password) ==
    LET a == authenticate(email, password) IN
    /\ ~http.called
    /\ http' = [called |-> TRUE, handler |-> "authenticate", scheme |-> "none",
                cred |-> [kind |-> "opaque", text |-> a.access_token,
                          claims |-> NoClaims, b64ok |-> TRUE],
                basic |-> <<>>, user_id |-> "", caller |-> "",
                update |-> NoUpdate, fail |-> "none", status |-> a.status,
                identity |-> a.user_id, dbError |-> FALSE]
    /\ UNCHANGED <<authVars, aiVars, coll, repo, jwks, api, db>>

\* The response is sent.
HttpDone ==
    /\ http.called
    /\ http' = NoRequest
    /\ UNCHANGED <<authVars, aiVars, coll, repo, jwks, api, db>>

\* The contents of the collection the users routes are tried against:
\* none, one record under either representation of its identifier or under
\* a text that is no ObjectId, and two users' records.
HttpCollections ==
    LET h1 == "65a1f0c2b3d4e5f601234567"
        h2 == "686297879a25b97b568c0908"
        Doc(key, email) ==
            [_id |-> key, email |-> email, name |-> "Pavan",
             has_completed_onboarding |-> FALSE, updated_at |-> 0]
    IN { {},
         {Doc(OidOf(h1), EmailA)},
         {Doc(StrOf(h1), EmailA)},
         {Doc(StrOf("user_123"), EmailA)},
         {Doc(OidOf(h1), EmailA), Doc(OidOf(h2), EmailB)},
         {Doc(OidOf(h1), EmailA), Doc(StrOf(h2), EmailB)} }

InitHttp ==
    /\ users \in HttpStores
    /\ nextId = Len(users)
    /\ coll \in HttpCollections
    /\ repo = NoRepoCall
    /\ jwks = NoKeys
    /\ http = NoRequest
    /\ api = NoApiCall
    /\ db = NoData
    /\ now = 1
    /\ tz = 0
    /\ pc = [c \in Clients |-> "idle"]
    /\ pend = [c \in Clients |-> [email |-> EmailA, status |-> 0]]
    /\ auth = NoCall
    /\ svc = AiIdle.svc
    /\ extCalls = AiIdle.extCalls
    /\ ai = AiIdle.ai

NextHttp ==
    \/ \E credentials \in {None} \cup {Some(c) : c \in BearerCredentials},
          dbOk1 \in BOOLEAN, dbOk2 \in BOOLEAN :
           GetCurrentUserId(credentials, dbOk1, dbOk2)
    \/ \E header \in AuthHeaders, dbOk1 \in BOOLEAN, dbOk2 \in BOOLEAN :
           GetUserIdFlexible(header, dbOk1, dbOk2)
    \/ \E user_id \in UserIds, fail \in GetFails : GetCurrentUser(user_id, fail)
    \/ \E user_id \in UserIds, current_user_id \in UserIds,
          update \in UserUpdates, fail \in UpdateFails :
           PutUser(user_id, current_user_id, update, fail)
    \/ \E user_id \in UserIds, current_user_id \in UserIds,
          completed \in BOOLEAN, fail \in UpdateFails :
           PutUserOnboarding(user_id, current_user_id, completed, fail)
    \/ \E user_id \in UserIds, current_user_id \in UserIds, fail \in DeleteFails :
           DeleteUserRoute(user_id, current_user_id, fail)
    \/ \E email \in {mock_user_email, EmailA},
          password \in {mock_user_password, StrEncode(<<"x">>)} :
           Authenticate(email, password)
    \/ HttpDone

\* The authentication dependencies and the users routes behind them.
SpecHttp == InitHttp /\ [][NextHttp]_vars

\* ------------------------------------------------------------ /ai routes
MaxSaved == 3

ApiUsers == {"u1", "u2"}
GoalIds == {"g1", "g2", "g3"}
JournalIds == {"j1", "j2", "j3"}

\* The goals and journals the routes are tried against: one of each per
\* user, and none under the third identifier.
ApiData ==
    [goals |-> {[goal |-> g, user_id |-> IF g.id = "g1" THEN "u1" ELSE "u2"] : g \in Goals},
     journals |-> {[id |-> "j1", user_id |-> "u1", ai_summary |-> None],
                   [id |-> "j2", user_id |-> "u2", ai_summary |-> None]},
     tasks |-> <<>>]

\* goal_repository.get_goal_by_id(goal_id, user_id): the goal with that id
\* that belongs to the user.
get_goal_by_id(goals, goal_id, user_id) ==
    IF \E d \in goals : d.goal.id = goal_id /\ d.user_id = user_id
    THEN Some((CHOOSE d \in goals : d.goal.id = goal_id /\ d.user_id = user_id).goal)
    ELSE None

\* journal_repository.get_journal_by_id(journal_id, user_id)
get_journal_by_id(journals, journal_id, user_id) ==
    IF \E d \in journals : d.id = journal_id /\ d.user_id = user_id
    THEN Some(CHOOSE d \in journals : d.id = journal_id /\ d.user_id = user_id)
    ELSE None

\* task_repository.create_ai_task(user_id, task_data)
create_ai_task(tasks, user_id, task_data) ==
    Append(tasks, [user_id |-> user_id, title |-> task_data.title])

\* journal_repository.update_ai_analysis(journal_id, user_id, ai_summary, ...)
update_ai_analysis(journals, journal_id, user_id, ai_summary) ==
    {IF d.id = journal_id /\ d.user_id = user_id
     THEN [d EXCEPT !.ai_summary = Some(ai_summary)] ELSE d : d \in journals}

\* What a route answers and what it did on the way: whether it called the
\* facade, whether the facade sent a request, and whether it handed a
\* write to background_tasks.
ApiAnswer(status, facade, external, dispatched, response) ==
    [status |-> status, facade |-> facade, external |-> external,
     dispatched |-> dispatched, response |-> response]

\* A slip in generate_tasks: the goal is fetched by its id alone.
generate_tasks_any_owner(dbv, svcv, goal_id, user_id, fail, outcome) ==
    IF fail = "lookup" THEN ApiAnswer(500, FALSE, FALSE, FALSE, EmptyJson)
    ELSE IF ~\E d \in dbv.goals : d.goal.id = goal_id
    THEN ApiAnswer(404, FALSE, FALSE, FALSE, EmptyJson)
    ELSE IF fail = "existing_tasks" THEN ApiAnswer(500, FALSE, FALSE, FALSE, EmptyJson)
    ELSE LET goal == (CHOOSE d \in dbv.goals : d.goal.id = goal_id).goal
             r == generate_tasks_for_goal(svcv, [goal |-> goal], outcome)
         IN IF r.raised THEN ApiAnswer(500, TRUE, r.external, FALSE, EmptyJson)
            ELSE ApiAnswer(200, TRUE, r.external, TRUE, r.body)

\* POST /ai/generate-tasks: fail names the repository call that raises.
generate_tasks(dbv, svcv, goal_id, user_id, fail, outcome) ==
    IF fail = "lookup" THEN ApiAnswer(500, FALSE, FALSE, FALSE, EmptyJson)
    ELSE LET goal == get_goal_by_id(dbv.goals, goal_id, user_id) IN
         IF IsNone(goal) THEN ApiAnswer(404, FALSE, FALSE, FALSE, EmptyJson)
         ELSE IF fail = "existing_tasks"
         THEN ApiAnswer(500, FALSE, FALSE, FALSE, EmptyJson)
         ELSE LET r == generate_tasks_for_goal(svcv, [goal |-> Val(goal)], outcome) IN
              IF r.raised THEN ApiAnswer(500, TRUE, r.external, FALSE, EmptyJson)
              ELSE ApiAnswer(200, TRUE, r.external, TRUE, r.body)

\* POST /ai/summarize-journal
summarize_journal_route(dbv, svcv, journal_id, user_id, fail, outcome) ==
    IF fail = "lookup" THEN ApiAnswer(500, FALSE, FALSE, FALSE, EmptyJson)
    ELSE LET journal == get_journal_by_id(dbv.journals, journal_id, user_id) IN
         IF IsNone(journal) THEN ApiAnswer(404, FALSE, FALSE, FALSE, EmptyJson)
         ELSE LET r == summarize_journal(svcv, [journal |-> journal_id], outcome) IN
              IF r.raised THEN ApiAnswer(500, TRUE, r.external, FALSE, EmptyJson)
              ELSE ApiAnswer(200, TRUE, r.external, TRUE, r.body)

ApiCall(route, resource, user_id, fail, a) ==
    [called |-> TRUE, route |-> route, resource |-> resource,
     user_id |-> user_id, fail |-> fail, status |-> a.status,
     facade |-> a.facade, external |-> a.external,
     dispatched |-> a.dispatched, attempts |-> 0, ran |-> FALSE,
     response |-> a.response, before |-> db]

\* A slip in generate_tasks: the handler saves the first task itself before
\* it returns the response.
ApiGenerateTasksAwaitingSave(goal_id, user_id, fail, outcome) ==
    LET a == generate_tasks(db, svc, goal_id, user_id, fail, outcome) IN
    /\ ~api.called
    /\ extCalls < MaxCalls
    /\ Len(db.tasks) < MaxSaved
    /\ api' = ApiCall("generate_tasks", goal_id, user_id, fail, a)
    /\ extCalls' = extCalls + (IF a.external THEN 1 ELSE 0)
    /\ db' = IF a.dispatched /\ Len(a.response.tasks) > 0
             THEN [db EXCEPT !.tasks = create_ai_task(@, user_id, a.response.tasks[1])]
             ELSE db
    /\ UNCHANGED <<authVars, svc, ai, coll, repo, jwks, http>>

\* A request to POST /ai/generate-tasks is answered: the handler hands
\* save_generated_tasks to background_tasks and returns.
ApiGenerateTasks(goal_id, user_id, fail, outcome) ==
    LET a == generate_tasks(db, svc, goal_id, user_id, fail, outcome) IN
    /\ ~api.called
    /\ extCalls < MaxCalls
    /\ Len(db.tasks) < MaxSaved
    /\ api' = ApiCall("generate_tasks", goal_id, user_id, fail, a)
    /\ extCalls' = extCalls + (IF a.external THEN 1 ELSE 0)
    /\ UNCHANGED <<authVars, svc, ai, coll, repo, jwks, http, db>>

\* A request to POST /ai/summarize-journal is answered.
ApiSummarizeJournal(journal_id, user_id, fail, outcome) ==
    LET a == summarize_journal_route(db, svc, journal_id, user_id, fail, outcome) IN
    /\ ~api.called
    /\ extCalls < MaxCalls
    /\ api' = ApiCall("summarize_journal", journal_id, user_id, fail, a)
    /\ extCalls' = extCalls + (IF a.external THEN 1 ELSE 0)
    /\ UNCHANGED <<authVars, svc, ai, coll, repo, jwks, http, db>>

\* A slip in save_generated_tasks: the try encloses the whole loop, so the
\* first save that raises ends the loop.
save_generated_tasks_one_try(a, saved, raises) ==
    LET i == a.attempts + 1 IN
    IF i > Len(a.response.tasks) THEN [api |-> [a EXCEPT !.ran = TRUE], tasks |-> saved]
    ELSE IF raises THEN [api |-> [a EXCEPT !.attempts = i, !.ran = TRUE], tasks |-> saved]
    ELSE [api |-> [a EXCEPT !.attempts = i],
          tasks |-> create_ai_task(saved, a.user_id, a.response.tasks[i])]

\* save_generated_tasks, one turn of its loop: the next task of the
\* response is handed to create_ai_task, and when that raises the error is
\* printed and the loop goes on; after the last task the function returns.
save_generated_tasks(a, saved, raises) ==
    LET i == a.attempts + 1 IN
    IF i > Len(a.response.tasks) THEN [api |-> [a EXCEPT !.ran = TRUE], tasks |-> saved]
    ELSE [api |-> [a EXCEPT !.attempts = i],
          tasks |-> IF raises THEN saved
                    ELSE create_ai_task(saved, a.user_id, a.response.tasks[i])]

\* The background task of generate_tasks runs, after the response: each
\* awaited create_ai_task is a step of its own.
RunSaveGeneratedTasks(raises) ==
    LET r == save_generated_tasks(api, db.tasks, raises) IN
    /\ api.called /\ api.dispatched /\ ~api.ran
    /\ api.route = "generate_tasks"
    /\ db' = [db EXCEPT !.tasks = r.tasks]
    /\ api' = r.api
    /\ UNCHANGED <<authVars, aiVars, coll, repo, jwks, http>>

\* The background task of summarize_journal (update_journal_analysis) runs,
\* after the response; an error of the update is printed.
RunUpdateJournalAnalysis(ok) ==
    /\ api.called /\ api.dispatched /\ ~api.ran
    /\ api.route = "summarize_journal"
    /\ db' = IF ok
             THEN [db EXCEPT !.journals =
                      update_ai_analysis(@, api.resource, api.user_id,
                                         api.response.summary)]
             ELSE db
    /\ api' = [api EXCEPT !.ran = TRUE]
    /\ UNCHANGED <<authVars, aiVars, coll, repo, jwks, http>>

\* The request and its background work are over.
ApiDone ==
    /\ api.called
    /\ api.dispatched => api.ran
    /\ api' = NoApiCall
    /\ UNCHANGED <<authVars, aiVars, coll, repo, jwks, http, db>>

ApiFails == {"none", "lookup", "existing_tasks"}

InitApi ==
    /\ \E api_key \in {"", "sk-test"} : svc = OpenAIServiceInit(api_key, TRUE)
    /\ extCalls = 0
    /\ ai = [last |-> None, fb |-> None]
    /\ db = ApiData
    /\ api = NoApiCall
    /\ coll = {}
    /\ repo = NoRepoCall
    /\ jwks = NoKeys
    /\ http = NoRequest
    /\ users = <<>>
    /\ nextId = 0
    /\ now = 1
    /\ tz = 0
    /\ pc = [c \in Clients |-> "idle"]
    /\ pend = [c \in Clients |-> [email |-> EmailA, status |-> 0]]
    /\ auth = NoCall

NextApi ==
    \/ \E goal_id \in GoalIds, user_id \in ApiUsers, fail \in ApiFails,
          outcome \in Outcomes("generate_tasks_for_goal") :
           ApiGenerateTasks(goal_id, user_id, fail, outcome)
    \/ \E journal_id \in JournalIds, user_id \in ApiUsers, fail \in ApiFails,
          outcome \in Outcomes("summarize_journal") :
           ApiSummarizeJournal(journal_id, user_id, fail, outcome)
    \/ \E raises \in BOOLEAN : RunSaveGeneratedTasks(raises)
    \/ \E ok \in BOOLEAN : RunUpdateJournalAnalysis(ok)
    \/ ApiDone

\* The /ai routes with their background writes.
SpecApi == InitApi /\ [][NextApi]_vars

\* The same, with the background work scheduled fairly: the framework runs
\* what background_tasks holds once the response is sent, and each awaited
\* create_ai_task returns or raises.
SpecApiFair ==
    /\ SpecApi
    /\ WF_vars(\E raises \in BOOLEAN : RunSaveGeneratedTasks(raises))
    /\ WF_vars(\E ok \in BOOLEAN : RunUpdateJournalAnalysis(ok))

\* ------------------------------------------------------------------ claims
StoredUnder(email) == {users[i].id : i \in {k \in 1..Len(users) : users[k].email = email}}

IsLegacyTokenOf(token, id, email) ==
    token.kind = "opaque" /\ token.text = create_access_token(id, email)

C2_ExpiredRejected ==
    (/\ auth.called
     /\ auth.cred.kind = "jwt"
     /\ auth.cred.claims.has_exp
     /\ auth.cred.claims.exp < auth.at)
    => IsNone(auth.result)

\* C3: a JWT whose iss is not the configured issuer, or is absent, is never
\* resolved to an identity.
C3_WrongIssuerRejected ==
    (/\ auth.called
     /\ auth.cred.kind = "jwt"
     /\ auth.cred.claims.iss # SupabaseUrl)
    => IsNone(auth.result)

\* A JWT of another issuer, not expired, naming a stored email, was refused
\* while the store answered.
C3_Witness ==
    /\ auth.called
    /\ auth.cred.kind = "jwt"
    /\ auth.cred.claims.iss = "https://other.example"
    /\ auth.cred.claims.has_exp
    /\ auth.cred.claims.exp > auth.at
    /\ auth.cred.claims.email = Some(EmailA)
    /\ StoredUnder(EmailA) # {}
    /\ auth.dbOk1 /\ auth.dbOk2
    /\ auth.cred.b64ok
    /\ IsNone(auth.result)

\* C4 as stated: the JWT path gives an identity only for a token that has
\* an exp claim lying in the future.
C4_JwtNeedsFutureExp ==
    (auth.called /\ auth.path = "jwt")
    => (auth.cred.claims.has_exp /\ auth.cred.claims.exp > auth.at)

\* C5 as stated: the users collection never holds two records with one
\* email.
C5_OneRecordPerEmail ==
    \A i, j \in 1..Len(users) : users[i].email = users[j].email => i = j

\* ---- the facade
Unconfigured == [is_configured |-> FALSE, client |-> FALSE]

Called == ~IsNone(ai.last)
LastCall == Val(ai.last)

\* The response class of each operation.
ResponseType(op) ==
    CASE op = "generate_tasks_for_goal" -> "TaskGenerationResponse"
      [] op = "generate_smart_tasks_from_goal_description" -> "dict"
      [] op = "generate_daily_breakdown" -> "dict"
      [] op = "summarize_journal" -> "JournalSummaryResponse"
      [] op = "analyze_mood_patterns" -> "MoodAnalysisResponse"

\* The fields of each response variant.
ResponseFields(op) ==
    CASE op = "generate_tasks_for_goal" -> {"tasks", "reasoning"}
      [] op = "generate_smart_tasks_from_goal_description" -> {"tasks", "goalAnalysis"}
      [] op = "generate_daily_breakdown" -> {"weeklyPlan", "totalDuration", "tips"}
      [] op = "summarize_journal" ->
            {"summary", "key_themes", "sentiment_score", "mood_analysis"}
      [] op = "analyze_mood_patterns" ->
            {"overall_sentiment", "mood_trend", "insights", "recommendations"}

\* The fallback generator of each operation, applied to its request.
FallbackBody(op, req) ==
    CASE op = "generate_tasks_for_goal" -> _generate_fallback_tasks(req.goal)
      [] op = "generate_smart_tasks_from_goal_description" ->
            _generate_fallback_goal_tasks(req.goal_title, req.goal_description)
      [] op = "generate_daily_breakdown" -> _generate_fallback_daily_plan(req.goal_title)
      [] op = "summarize_journal" -> _generate_fallback_journal_summary
      [] op = "analyze_mood_patterns" ->
            _generate_fallback_mood_analysis(Len(req.journals))

\* C6: whatever the external call comes to, a facade operation raises
\* nothing and returns a response of its own class.
C6_NeverRaises ==
    Called => (~LastCall.raised /\ LastCall.type = ResponseType(LastCall.op))

\* summarize_journal got JSON without mood_analysis from the service and
\* returned a response.
C6_Witness ==
    /\ Called
    /\ LastCall.op = "summarize_journal"
    /\ LastCall.external
    /\ LastCall.outcome.kind = "json"
    /\ Has(LastCall.outcome.json, "summary")
    /\ ~Has(LastCall.outcome.json, "mood_analysis")
    /\ ~LastCall.raised

\* C7: an unconfigured service is never sent a request, and every operation
\* returns the fallback of its variant.
C7_UnconfiguredNoRequest ==
    ~svc.is_configured =>
        /\ extCalls = 0
        /\ Called => (/\ ~LastCall.external
                      /\ ~LastCall.raised
                      /\ LastCall.type = ResponseType(LastCall.op)
                      /\ LastCall.body = FallbackBody(LastCall.op, LastCall.req))

\* The unconfigured service was asked for the mood patterns of no journals.
C7_Witness ==
    /\ ~svc.is_configured
    /\ Called
    /\ LastCall.op = "analyze_mood_patterns"
    /\ LastCall.req.journals = <<>>
    /\ LastCall.source = "fallback"

\* C8: the response after a failed call equals the response the
\* unconfigured service gives to the same request.
C8_FailureEqualsUnconfigured ==
    (Called /\ svc.is_configured /\ LastCall.source = "fallback")
    => LET u == Facade(LastCall.op, Unconfigured, LastCall.req, NoOutcome) IN
       /\ LastCall.type = u.type
       /\ LastCall.body = u.body

\* The request for smart tasks of a goal with a description timed out.
C8_Witness ==
    /\ Called
    /\ svc.is_configured
    /\ LastCall.op = "generate_smart_tasks_from_goal_description"
    /\ LastCall.req.goal_description # ""
    /\ LastCall.external
    /\ LastCall.outcome.kind = "timeout"
    /\ LastCall.source = "fallback"

\* C9: every returned response holds every field of its variant.
C9_AllFieldsPresent ==
    (Called /\ ~LastCall.raised)
    => ResponseFields(LastCall.op) \subseteq DOMAIN LastCall.body

\* A daily breakdown was built from service JSON that has no tips.
C9_Witness ==
    /\ Called
    /\ LastCall.op = "generate_daily_breakdown"
    /\ LastCall.source = "service"
    /\ Has(LastCall.outcome.json, "weeklyPlan")
    /\ ~Has(LastCall.outcome.json, "tips")
    /\ Has(LastCall.body, "tips")

\* C10: a step that returns a fallback leaves the service as it was and
\* sends no request beyond the one that failed, and the fallback equals
\* every fallback an earlier call returned for the same request.
C10_FallbackDeterministic ==
    [][ (~IsNone(ai'.last) /\ Val(ai'.last).source = "fallback")
        => /\ svc' = svc
           /\ authVars' = authVars
           /\ extCalls' <= extCalls + 1
           /\ ~svc.is_configured => extCalls' = extCalls
           /\ (/\ ~IsNone(ai'.fb)
               /\ Val(ai'.fb).op = Val(ai'.last).op
               /\ Val(ai'.fb).req = Val(ai'.last).req)
              => Val(ai'.fb).body = Val(ai'.last).body ]_vars

\* Two calls of summarize_journal for one journal both failed and both
\* returned a fallback, with a call of another operation in between.
C10_Witness ==
    /\ Called
    /\ ~IsNone(ai.fb)
    /\ LastCall.source = "fallback"
    /\ LastCall.op = "summarize_journal"
    /\ Val(ai.fb).op = "summarize_journal"
    /\ Val(ai.fb).req = LastCall.req
    /\ LastCall.external
    /\ extCalls = MaxCalls

\* C11 as stated: analyze_mood_patterns called with no journal entries
\* returns, configured or not, a response with overall_sentiment 0.0,
\* mood_trend "neutral" and an insight saying that no entries were found,
\* and raises nothing.
C11_EmptyJournalsNeutral ==
    (/\ Called
     /\ LastCall.op = "analyze_mood_patterns"
     /\ LastCall.req.journals = <<>>)
    => /\ ~LastCall.raised
       /\ LastCall.body.overall_sentiment = 0
       /\ LastCall.body.mood_trend = "neutral"
       /\ \E i \in 1..Len(LastCall.body.insights) :
              LastCall.body.insights[i] = <<"No journal entries found for analysis">>

\* An f-string holds the text t when one of its pieces is t.
FContains(pieces, t) == \E i \in 1..Len(pieces) : pieces[i] = t

\* C12: the fallback tasks of generate_tasks_for_goal and of
\* generate_smart_tasks_from_goal_description include at least one task
\* whose title contains the goal's title.
C12_FallbackTitleNamesGoal ==
    (/\ Called
     /\ LastCall.source = "fallback"
     /\ LastCall.op \in {"generate_tasks_for_goal",
                         "generate_smart_tasks_from_goal_description"})
    => LET byGoal == LastCall.op = "generate_tasks_for_goal"
           t == IF byGoal THEN LastCall.req.goal.title ELSE LastCall.req.goal_title
           tasks == IF byGoal THEN LastCall.body.tasks ELSE LastCall.body.tasks.v
       IN \E i \in 1..Len(tasks) : FContains(tasks[i].title, t)

\* The unconfigured service returned fallback tasks for the goal
\* "Learn Spanish".
C12_Witness ==
    /\ Called
    /\ ~svc.is_configured
    /\ LastCall.op = "generate_tasks_for_goal"
    /\ LastCall.req.goal.title = "Learn Spanish"
    /\ LastCall.source = "fallback"
    /\ Len(LastCall.body.tasks) = 3

\* ---- the repository
\* The same document under the other representation of its _id.
Flip(d) ==
    [d EXCEPT !._id = IF @.rep = "oid" THEN StrOf(@.s) ELSE OidOf(@.s)]

\* The documents of c whose _id can be stored in the other representation.
Flippable(c) ==
    {d \in c : d._id.s \in HexIds /\ \A e \in c : e._id # Flip(d)._id}

\* The collection c with document d stored under the other representation.
FlipIn(c, d) == {IF e._id = d._id THEN Flip(e) ELSE e : e \in c}

\* The last repository call, made on the collection c.
RepoRun(c) ==
    IF repo.op = "get_user_by_id" THEN get_user_by_id(c, repo.user_id, repo.fail)
    ELSE update_user(c, repo.user_id, repo.update, repo.at, repo.fail)

\* C13: while the store answers, get_user_by_id(id) and update_user(id,
\* fields) find the record of id, and their result and the contents they
\* leave are the same whether the record is stored under ObjectId(id) or
\* under the string id.
C13_RepresentationTransparent ==
    (repo.called /\ repo.op \in {"get_user_by_id", "update_user"}
     /\ repo.fail = "none")
    => \A d \in Flippable(repo.before) :
          LET other == RepoRun(FlipIn(repo.before, d)) IN
          /\ other.result = repo.result
          /\ other.coll = FlipIn(coll, d)
          /\ d._id.s = repo.user_id => ~IsNone(repo.result)

\* update_user changed a record that is stored under an ObjectId; the
\* collection also holds a record stored under a string.
C13_Witness ==
    /\ repo.called
    /\ repo.op = "update_user"
    /\ repo.fail = "none"
    /\ repo.update.has_completed_onboarding = Some(TRUE)
    /\ \E d \in Flippable(repo.before) :
          /\ d._id = OidOf(repo.user_id)
          /\ \E e \in repo.before : e._id.rep = "str"
    /\ ~IsNone(repo.result)
    /\ Val(repo.result).has_completed_onboarding

\* ---- the order of the resolver's steps
Count(seq, x) == Cardinality({i \in 1..Len(seq) : seq[i] = x})

\* The identity the JWT path gave in the last call of the resolver.
JwtPathResult ==
    SupabaseGetUser(auth.cred, users, auth.at, tz, auth.dbOk1).result

\* C15: the resolver verifies the JWT first and once; it decodes the legacy
\* form at most once and only when the JWT path gave no identity; an
\* identity of the JWT path is returned with no legacy decode and no second
\* lookup.
C15_FixedOrderNoRetry ==
    auth.called =>
        /\ Len(auth.calls) >= 1
        /\ auth.calls[1] = "verify_jwt"
        /\ Count(auth.calls, "verify_jwt") = 1
        /\ Count(auth.calls, "decode_mock") <= 1
        /\ Count(auth.calls, "lookup") <= 2
        /\ Count(auth.calls, "decode_mock") = 1 => IsNone(JwtPathResult)
        /\ ~IsNone(JwtPathResult) =>
              /\ auth.result = JwtPathResult
              /\ auth.path = "jwt"
              /\ auth.calls = <<"verify_jwt", "lookup">>

\* A JWT that also decodes as base64 was resolved by the JWT path alone.
C15_Witness ==
    /\ auth.called
    /\ auth.cred.kind = "jwt"
    /\ auth.cred.b64ok
    /\ auth.path = "jwt"
    /\ auth.calls = <<"verify_jwt", "lookup">>
    /\ ~IsNone(auth.result)

\* C16: a JWT of the configured issuer with a future exp and no email, or
\* an empty one, gets no identity from the JWT path, and the JWT path looks
\* no user up: the legacy decode follows the verification directly.
C16_NoEmailNoIdentity ==
    (/\ auth.called
     /\ auth.cred.kind = "jwt"
     /\ auth.cred.claims.iss = SupabaseUrl
     /\ auth.cred.claims.has_exp
     /\ auth.cred.claims.exp > auth.at
     /\ ~Truthy(auth.cred.claims.email))
    => /\ auth.path # "jwt"
       /\ Len(auth.calls) >= 2
       /\ auth.calls[1] = "verify_jwt"
       /\ auth.calls[2] = "decode_mock"
       /\ IsNone(auth.result)

\* A JWT with no email whose sub is the id of a stored user was refused
\* while the store answered.
C16_Witness ==
    /\ auth.called
    /\ auth.cred.kind = "jwt"
    /\ auth.cred.claims.iss = SupabaseUrl
    /\ auth.cred.claims.has_exp
    /\ auth.cred.claims.exp > auth.at
    /\ auth.cred.claims.email = None
    /\ auth.cred.claims.sub = Some(IdOf(1))
    /\ Len(users) >= 1
    /\ auth.dbOk1 /\ auth.dbOk2
    /\ IsNone(auth.result)

\* C17: a call of the resolver, whether it gives an identity or none,
\* leaves the user records, the signing-key cache, its expiry and the
\* number of key fetches as they were, and its result is the one the
\* credential, the store and the clock give whatever the cache holds.
C17_ResolveNoSideEffect ==
    [][ (~auth.called /\ auth'.called)
        => /\ users' = users
           /\ nextId' = nextId
           /\ coll' = coll
           /\ jwks' = jwks
           /\ auth'.result =
                 get_user_from_token(auth'.cred, users, now, tz,
                                     auth'.dbOk1, auth'.dbOk2).result ]_vars

\* The resolver gave an identity while the cache held keys that had
\* expired, after a fetch.
C17_Witness ==
    /\ auth.called
    /\ ~IsNone(auth.result)
    /\ jwks.cache = Some("keys")
    /\ jwks.fetches = 1
    /\ Val(jwks.expiry) <= auth.at

\* ---- the request handlers
AuthHandlers == {"get_current_user_id", "get_user_id_flexible"}

\* C14: get_current_user_id and get_user_id_flexible answer 200 with the id
\* of a user record in the store, or 401 with no identity; a request with no
\* credential, and any request while no user record exists, gets 401.
C14_IdentityOr401 ==
    (http.called /\ http.handler \in AuthHandlers)
    => /\ http.status \in {200, 401}
       /\ http.status = 200 =>
             /\ ~IsNone(http.identity)
             /\ \E i \in 1..Len(users) : users[i].id = Val(http.identity)
       /\ http.status = 401 => IsNone(http.identity)
       /\ http.scheme = "none" => http.status = 401
       /\ users = <<>> => http.status = 401

\* A legacy token whose email no record has was answered with 401 by
\* get_current_user_id, the store holding another user.
C14_Witness ==
    /\ http.called
    /\ http.handler = "get_current_user_id"
    /\ IsLegacyTokenOf(http.cred, StrEncode(<<"u", "1">>), EmailB)
    /\ users = <<[id |-> IdOf(1), email |-> EmailA]>>
    /\ ~http.dbError
    /\ http.status = 401

\* The email and password of a Basic header, when it decodes to a text
\* with a ':'.
BasicPair(basic) == SplitFirst(Val(Utf8Decode(Val(b64decode(basic)))))

\* C18 as stated: get_user_id_flexible gives an identity to a Basic header
\* only when its email and password are the fixed development credentials.
C18_BasicOnlyFixedCredentials ==
    (/\ http.called
     /\ http.handler = "get_user_id_flexible"
     /\ http.scheme = "Basic"
     /\ http.status = 200)
    => verify_credentials(BasicPair(http.basic).email, BasicPair(http.basic).password)

\* C19 as stated: a request during which the store raised an error on a
\* user lookup or update is answered with a generic failure (500).
C19_PersistenceErrorGeneric ==
    (http.called /\ http.dbError) => http.status = 500

\* ---- the /ai routes
\* Whether the resource the last /ai request names existed and belonged to
\* the caller when the request came.
OwnedByCaller ==
    IF api.route = "generate_tasks"
    THEN \E d \in api.before.goals :
            d.goal.id = api.resource /\ d.user_id = api.user_id
    ELSE \E d \in api.before.journals :
            d.id = api.resource /\ d.user_id = api.user_id

\* C20: when the goal or journal a request names is absent or belongs to
\* another user, and the lookup answers, the route answers 404, the facade
\* is not called, no request goes to the service, and no background write
\* is dispatched or made.
C20_NotFoundNoGeneration ==
    (api.called /\ api.fail # "lookup" /\ ~OwnedByCaller)
    => /\ api.status = 404
       /\ ~api.facade
       /\ ~api.external
       /\ ~api.dispatched
       /\ db = api.before

\* User u1 asked for tasks for the goal of user u2.
C20_Witness ==
    /\ api.called
    /\ api.route = "generate_tasks"
    /\ api.resource = "g2"
    /\ api.user_id = "u1"
    /\ api.fail = "none"
    /\ api.status = 404
    /\ \E d \in db.goals : d.goal.id = "g2" /\ d.user_id = "u2"

\* C21: the secondary write of generate_tasks and summarize_journal is made
\* only after the handler has returned its response: the collections change
\* only in a step that finds a request already answered with 200 and its
\* background work dispatched and not yet over, and the step that answers
\* the request leaves the collections as they were.
C21_WriteOnlyAfterResponse ==
    [][/\ db' # db => (api.called /\ api.dispatched /\ api.status = 200
                         /\ ~api.ran /\ api'.response = api.response)
       /\ (~api.called /\ api'.called) => db' = db]_vars

\* The response to generate_tasks is out with tasks in it, and a read of
\* the collections still finds none of them.
C21_Witness ==
    /\ api.called
    /\ api.route = "generate_tasks"
    /\ api.status = 200
    /\ api.dispatched
    /\ api.attempts = 0
    /\ Len(api.response.tasks) > 0
    /\ db = api.before

\* A save has been attempted for every task of the response.
AllAttempted == api.attempts = Len(api.response.tasks)

\* C22: once save_generated_tasks is dispatched, a save is eventually
\* attempted for every task of the response; a save that fails does not end
\* the attempts, and the answer the caller got stays as it was.
C22_EverySaveAttempted ==
    /\ (api.called /\ api.route = "generate_tasks" /\ api.dispatched)
          ~> (api.route = "generate_tasks" /\ api.ran /\ AllAttempted)
    /\ []((api.route = "generate_tasks" /\ api.ran) => AllAttempted)
    /\ [][(api.called /\ api'.called)
            => (api'.status = api.status /\ api'.response = api.response)]_vars

\* The fallback tasks were returned by an unconfigured service; the save of
\* one of them failed and the last of them is stored all the same.
C22_Witness ==
    /\ api.called
    /\ api.route = "generate_tasks"
    /\ api.ran
    /\ ~api.external
    /\ ~svc.is_configured
    /\ api.attempts = Len(api.response.tasks)
    /\ api.attempts >= 2
    /\ Len(db.tasks) - Len(api.before.tasks) \in 1..(api.attempts - 1)
    /\ db.tasks[Len(db.tasks)].title = api.response.tasks[api.attempts].title

\* ---- updates and deletions by identifier
\* What the update of the last call makes of document d: the fields the
\* update names take its values, updated_at the time of the call, and
\* the rest stays.
Merged(d) ==
    [_id |-> d._id,
     email |-> d.email,
     name |-> IF IsNone(repo.update.name) THEN d.name ELSE Val(repo.update.name),
     has_completed_onboarding |->
         IF IsNone(repo.update.has_completed_onboarding)
         THEN d.has_completed_onboarding
         ELSE Val(repo.update.has_completed_onboarding),
     updated_at |-> repo.at]

\* C25: update_user with a field that is not None changes at most one
\* record, one stored under the identifier, and on it exactly the named
\* fields and updated_at; when it returns a user, that one record was
\* written and is the user returned. With no field it writes nothing and
\* returns what get_user_by_id returns.
C25_PartialMerge ==
    (repo.called /\ repo.op = "update_user")
    => IF repo.update = NoUpdate
       THEN /\ coll = repo.before
            /\ repo.result = get_user_by_id(repo.before, repo.user_id, repo.fail).result
       ELSE /\ \/ coll = repo.before
               \/ \E d \in repo.before :
                     /\ d._id.s = repo.user_id
                     /\ coll = (repo.before \ {d}) \cup {Merged(d)}
            /\ ~IsNone(repo.result)
                 => \E d \in repo.before :
                       /\ d._id.s = repo.user_id
                       /\ coll = (repo.before \ {d}) \cup {Merged(d)}
                       /\ Val(repo.result) = ToUser(Merged(d))

\* An update of the onboarding flag alone reached one of two stored
\* records: its name is as before, its updated_at is new, and the other
\* record is as before.
C25_Witness ==
    /\ repo.called
    /\ repo.op = "update_user"
    /\ repo.update = [name |-> None, has_completed_onboarding |-> Some(TRUE)]
    /\ ~IsNone(repo.result)
    /\ Val(repo.result).name = "Pavan"
    /\ Val(repo.result).has_completed_onboarding
    /\ Val(repo.result).updated_at = repo.at
    /\ Cardinality(coll) = 2
    /\ Cardinality(coll \cap repo.before) = 1

\* C28: whenever get_user_by_id finds the record, delete_user removes it
\* and returns true, and after a true answer get_user_by_id finds no user.
C28_DeleteRemovesFound ==
    (repo.called /\ repo.op = "delete_user" /\ repo.fail = "none")
    => /\ ~IsNone(get_user_by_id(repo.before, repo.user_id, "none").result)
            => repo.deleted
       /\ repo.deleted => IsNone(get_user_by_id(coll, repo.user_id, "none").result)

\* C29: after update_user returns a user, get_user_by_id returns that
\* same user, whatever the collection holds.
C29_UpdateThenGet ==
    (repo.called /\ repo.op = "update_user" /\ ~IsNone(repo.result))
    => get_user_by_id(coll, repo.user_id, "none").result = repo.result

\* ---- the users routes and the caller's identity
\* C23: for the development credentials, the user_id of the authenticate
\* response is not the configured mock identifier; it is the id of the
\* record get_user_by_email returns for the email, which is the identity
\* the resolver returns for the access token of the response.
C23_AuthenticateReturnsStoredId ==
    (/\ http.called /\ http.handler = "authenticate" /\ http.status = 200
     /\ StoredUnder(mock_user_email) # {})
    => /\ http.identity # Some(mock_user_id)
       /\ http.identity = get_user_id_from_email(users, mock_user_email, TRUE)
       /\ http.identity =
              get_user_from_token(http.cred, users, now, tz, TRUE, TRUE).result

\* A request of one of the users routes has just been answered.
Answered(handlers) ==
    ~http.called /\ http'.called /\ http'.handler \in handlers

\* C26: DELETE /users/{user_id} removes a record only when user_id is the
\* caller's identity; when they differ the answer is 403 and the
\* collection is as it was.
C26_DeleteOnlyOwnRecord ==
    [][Answered({"delete_user"})
       => /\ coll' # coll => http'.user_id = http'.caller
          /\ http'.user_id # http'.caller => (http'.status = 403 /\ coll' = coll)]_vars

\* A caller asked for the deletion of another user's stored record, which
\* is stored by ObjectId: 403, and the record is there.
C26_Witness ==
    /\ http.called
    /\ http.handler = "delete_user"
    /\ http.fail = "none"
    /\ http.user_id # http.caller
    /\ http.status = 403
    /\ \E d \in coll : d._id = OidOf(http.user_id)
    /\ \E d \in coll : d._id.s = http.caller

\* C27: the two PUT routes change a record only when user_id is the
\* identity resolved for the caller, a caller whose own record is stored.
C27_PutOnlyOwnRecord ==
    [][(/\ Answered({"update_user", "update_user_onboarding"})
        /\ \E d \in coll : d._id.s = http'.caller
        /\ coll' # coll)
       => http'.user_id = http'.caller]_vars

\* ---- the signing-key cache
\* A step of get_jwks that went to the network.
Fetched == jwks'.fetches > jwks.fetches

\* C24: after a fetch that returned status 200, whose expiry is kept, no
\* further fetch is made before that expiry, whatever was fetched; and a
\* failed fetch leaves the cached keys and the expiry as they were.
C24_OneFetchPerHour ==
    [][/\ (Fetched /\ ~IsNone(jwks.expiry)) => Val(jwks.expiry) <= now
       /\ (Fetched /\ jwks'.last = "failed")
             => (jwks'.cache = jwks.cache /\ jwks'.expiry = jwks.expiry)]_vars

\* ---- what decides the identity
\* The legacy token create_access_token(id, email) as a credential.
LegacyToken(id, email) ==
    [kind |-> "opaque", text |-> create_access_token(id, email),
     claims |-> NoClaims, b64ok |-> TRUE]

\* What the resolver gives for another credential in the circumstances of
\* the last call: the same store, clock and answers of the store.
ResolvedAs(token) ==
    get_user_from_token(token, users, auth.at, tz, auth.dbOk1, auth.dbOk2).result

\* The sub claim of the JWT of the last call does not tell in its result.
SubIgnored ==
    auth.cred.kind = "jwt"
    => \A sub \in Subs :
          auth.result = ResolvedAs([auth.cred EXCEPT !.claims.sub = sub])

\* The legacy token of the last call, when its identifier has no ':',
\* decodes to its email.
DecodesToEmail ==
    \A id \in Identifiers, e \in Emails :
        (~HasColon(id) /\ IsLegacyTokenOf(auth.cred, id, e))
        => decode_mock_token(auth.cred) = Some(e)

\* C30 as stated: the email and the store alone decide the identity: a
\* legacy token resolves as every legacy token of the same email does,
\* whatever the two identifier parts, the sub of a JWT does not tell, and
\* a token of a colon-free identifier decodes to its email.
C30_EmailAloneDecides ==
    auth.called
    => /\ \A id \in Identifiers, other \in Identifiers, e \in Emails :
             IsLegacyTokenOf(auth.cred, id, e)
             => auth.result = ResolvedAs(LegacyToken(other, e))
       /\ SubIgnored
       /\ DecodesToEmail

\* C30 amended: the same, for identifier parts that contain no ':'.
C30_EmailDecidesColonFree ==
    auth.called
    => /\ \A id \in Identifiers, other \in Identifiers, e \in Emails :
             (~HasColon(id) /\ ~HasColon(other) /\ IsLegacyTokenOf(auth.cred, id, e))
             => auth.result = ResolvedAs(LegacyToken(other, e))
       /\ SubIgnored
       /\ DecodesToEmail

\* A token with an empty identifier part was resolved to the stored user
\* that the token of identifier u1 and the same email resolves to.
C30_Witness ==
    /\ auth.called
    /\ auth.cred = LegacyToken(<<>>, EmailA)
    /\ ~IsNone(auth.result)
    /\ auth.result = ResolvedAs(LegacyToken(StrEncode(<<"u", "1">>), EmailA))
    /\ decode_mock_token(auth.cred) = Some(EmailA)

=============================================================================
